---------------------------- MODULE Spec2Model ----------------------------
(***************************************************************************)
(* A model of the fixer optimizer daemon (src/fixer/agent.py and the pure  *)
(* components it calls: utils.py, context_engine.py, policy.py).           *)
(*                                                                         *)
(* Names are sequences of one-character strings so that normalisation and  *)
(* substring matching are computed, not assumed.  One RunCycle action is   *)
(* one execution of OptimizerAgent._run_cycle; it threads a record `st` of *)
(* the agent's per-pid maps through the phases of the cycle in the order   *)
(* of the code.  The `log` field of `st` is the trace of the cycle, in the  *)
(* order in which the code produces it:                                    *)
(*   call_set_priority, call_terminate   _set_priority / _terminate_process*)
(*       is entered (`cached` is what the priority cache holds for the pid)*)
(*   os_set_priority, os_terminate, os_kill   proc.nice(priority),         *)
(*       proc.terminate(), proc.kill() is called                           *)
(*   dry_set_priority, dry_terminate   the "[dry-run]" log lines           *)
(*   terminated, killed, priority_failed, terminate_failed, kill_failed    *)
(*       the log lines that report an OS call's outcome                    *)
(*   would_close, keep_safe, no_enforcement   the "[dry-policy]" log lines *)
(*   hog_warning, suspicious_warning   the two warnings                    *)
(*   finding   the classifier returned a finding for the process           *)
(*   close_target   the close loop of the profile came to the process      *)
(*   dropped   a map drops the entries of a pid that left the snapshot     *)
(*   observe_hog, observe_suspicion   the Learning Engine is notified      *)
(*   unhandled_error   "Unhandled error during optimizer cycle"            *)
(***************************************************************************)
EXTENDS Integers, Sequences, FiniteSets, TLC

(***************************************************************************)
(* Bounds of the model.                                                    *)
(***************************************************************************)
MaxPid == 2
MaxWindows == 2
MaxFaults == 1
MaxStreak == 2 * MaxWindows

\* the cycles of one run() call that are told apart
MaxCycles == 2

(***************************************************************************)
(* Generic helpers: python dicts as functions with a finite domain.        *)
(***************************************************************************)
\* python's None where a string is expected: a value no string equals
None == <<"None">>

NoLevel == "none"

EmptyDict == [x \in {} |-> 0]

DictPut(d, k, v) == [x \in (DOMAIN d) \cup {k} |-> IF x = k THEN v ELSE d[x]]

DictPop(d, k) == [x \in (DOMAIN d) \ {k} |-> d[x]]

Range(s) == {s[i] : i \in DOMAIN s}

\* `indicator in name` on python strings
IsSubstr(ind, s) ==
    \E i \in 0..(Len(s) - Len(ind)) :
        \A j \in 1..Len(ind) : s[i + j] = ind[j]

(***************************************************************************)
(* utils.normalize_process_name                                            *)
(***************************************************************************)
Lower(c) ==
    CASE c = "S" -> "s"
      [] c = "G" -> "g"
      [] c = "X" -> "x"
      [] c = "K" -> "k"
      [] c = "F" -> "f"
      [] c = "M" -> "m"
      [] OTHER -> c

IsSpace(c) == c = " "

LowerSeq(s) == [i \in 1..Len(s) |-> Lower(s[i])]

NotSpace(c) == ~IsSpace(c)

normalize_process_name(value) ==
    IF value = None \/ value = <<>>
    THEN <<>>
    ELSE SelectSeq(LowerSeq(value), NotSpace)


(***************************************************************************)
(* The configuration (models.AppConfig as produced by config.load_config:  *)
(* every name list is already normalised and duplicate-free).              *)
(***************************************************************************)
Modes == {"safe", "balanced", "aggressive"}

p_default == <<"d", "e", "f", "a", "u", "l", "t">>
p_gaming == <<"g", "a", "m", "i", "n", "g">>
p_streaming == <<"s", "t", "r", "e", "a", "m", "i", "n", "g">>

Kinds == {"unauthorized_recorder", "possible_keylogger", "possible_miner"}

Levels == {"idle", "below_normal", "normal", "above_normal", "high"}

ACTIVE_GAME == <<"{", "active_game", "}">>

n_sys == <<"s", "y", "s">>
n_g1 == <<"g", "1">>
n_g2 == <<"g", "2">>
n_obs == <<"o", "b", "s">>
n_obsx == <<"o", "b", "s", "x">>
n_xmr == <<"x", "m", "r">>
n_key == <<"k", "e", "y">>
n_fix == <<"f", "i", "x">>

hog_cpu_percent == 55

BaseProfiles ==
    (p_default :> [boost |-> <<n_sys, n_key>>, throttle |-> <<n_obsx, n_fix>>,
                   close |-> <<n_xmr, n_sys>>])
    @@ (p_gaming :> [boost |-> <<ACTIVE_GAME>>, throttle |-> <<n_obsx>>,
                     close |-> <<n_key, n_sys>>])
    @@ (p_streaming :> [boost |-> <<ACTIVE_GAME, n_obs>>, throttle |-> <<n_key>>,
                        close |-> <<n_obsx>>])

BaseSuspicious ==
    [authorized_recorders   |-> <<n_obs>>,
     recorder_indicators    |-> << <<"o", "b", "s">> >>,
     keylogger_indicators   |-> << <<"k", "e", "y">> >>,
     miner_indicators       |-> << <<"x", "m">> >>,
     always_terminate_names |-> <<n_xmr>>]

AppConfig(mode, windows) ==
    [mode                    |-> mode,
     hog_cpu_percent         |-> hog_cpu_percent,
     hog_observation_windows |-> windows,
     game_processes          |-> <<n_g1, n_g2>>,
     streaming_processes     |-> <<n_obs>>,
     profiles                |-> BaseProfiles,
     suspicious              |-> BaseSuspicious,
     protected_processes     |-> <<n_sys>>,
     resource_allowlist      |-> <<n_obs>>]

Configs == {AppConfig(m, w) : m \in Modes, w \in 1..MaxWindows}

(***************************************************************************)
(* The processes of the machine.  A process image is what psutil reports   *)
(* for it: its raw name and command line.                                  *)
(***************************************************************************)
OwnPid == 1

Pids == 1..(MaxPid + 1)

DaemonImage == [name |-> <<"F", "i", "x">>, cmdline |-> <<>>]

Images ==
    {[name |-> <<"S", "y", "s">>, cmdline |-> <<>>],
     [name |-> <<"G", "1">>, cmdline |-> <<>>],
     [name |-> <<"g", "2", " ">>, cmdline |-> <<>>],
     [name |-> <<"o", "b", "s">>, cmdline |-> <<>>],
     [name |-> <<"o", "b", "s", "x">>, cmdline |-> <<>>],
     [name |-> <<"X", "m", "r">>, cmdline |-> <<>>],
     [name |-> <<"K", "e", "y">>, cmdline |-> <<>>],
     [name |-> <<"k", "e", "y">>, cmdline |-> << <<"k", "e", "y">>, <<"-", "X", "M">> >>]}

CpuValues == {hog_cpu_percent - 1, hog_cpu_percent}

Proc(pid, image, cpu) ==
    [pid |-> pid, name |-> image.name, cmdline |-> image.cmdline, cpu_percent |-> cpu]

(***************************************************************************)
(* context_engine.ContextEngine                                            *)
(***************************************************************************)
RECURSIVE FirstRunning(_, _)
FirstRunning(games, running_names) ==
    IF games = <<>> THEN None
    ELSE IF Head(games) \in running_names THEN Head(games)
    ELSE FirstRunning(Tail(games), running_names)

_find_active_game_ListOnly(cfg, running_names, foreground_process) ==
    FirstRunning(cfg.game_processes, running_names)

_find_active_game(cfg, running_names, foreground_process) ==
    IF foreground_process # None /\ foreground_process # <<>>
       /\ foreground_process \in Range(cfg.game_processes)
    THEN foreground_process
    ELSE FirstRunning(cfg.game_processes, running_names)

\* a detect that takes the foreground for a running streaming process
detect_ForegroundStreams(cfg, running_names, foreground_process) ==
    LET active_game == _find_active_game(cfg, running_names, foreground_process)
        streaming_active ==
            \E n \in Range(cfg.streaming_processes) :
                n \in running_names \/ n = foreground_process
    IN  [profile_name       |-> IF streaming_active /\ active_game # None THEN p_streaming
                                ELSE IF active_game # None THEN p_gaming
                                ELSE p_default,
         active_game        |-> active_game,
         streaming_active   |-> streaming_active,
         foreground_process |-> foreground_process]

detect(cfg, running_names, foreground_process) ==
    LET active_game == _find_active_game(cfg, running_names, foreground_process)
        streaming_active == \E n \in Range(cfg.streaming_processes) : n \in running_names
    IN  [profile_name       |-> IF streaming_active /\ active_game # None THEN p_streaming
                                ELSE IF active_game # None THEN p_gaming
                                ELSE p_default,
         active_game        |-> active_game,
         streaming_active   |-> streaming_active,
         foreground_process |-> foreground_process]

(***************************************************************************)
(* policy.ProcessClassifier                                                *)
(***************************************************************************)
RECURSIVE Strip(_)
Strip(s) ==
    IF s = <<>> THEN s
    ELSE IF IsSpace(Head(s)) THEN Strip(Tail(s))
    ELSE IF IsSpace(s[Len(s)]) THEN Strip(SubSeq(s, 1, Len(s) - 1))
    ELSE s

\* a recorder test that does not look at the allowlist
_is_unauthorized_recorder_NoAllowlist(cfg, name) ==
    \E ind \in Range(cfg.suspicious.recorder_indicators) :
        ind # <<>> /\ IsSubstr(ind, name)

_is_unauthorized_recorder(cfg, name) ==
    IF name \in Range(cfg.suspicious.authorized_recorders)
    THEN FALSE
    ELSE \E ind \in Range(cfg.suspicious.recorder_indicators) :
            ind # <<>> /\ IsSubstr(ind, name)

_matches_any(indicators, name, cmdline) ==
    \E ind \in Range(indicators) :
        ind # <<>> /\ (IsSubstr(ind, name) \/ IsSubstr(ind, cmdline))

\* a classify that stops at its first finding
classify_FirstMatch(cfg, name, cmdline) ==
    IF _is_unauthorized_recorder(cfg, normalize_process_name(name))
    THEN <<"unauthorized_recorder">>
    ELSE IF _matches_any(cfg.suspicious.keylogger_indicators,
                         normalize_process_name(name), LowerSeq(Strip(cmdline)))
         THEN <<"possible_keylogger">>
    ELSE IF _matches_any(cfg.suspicious.miner_indicators,
                         normalize_process_name(name), LowerSeq(Strip(cmdline)))
         THEN <<"possible_miner">>
    ELSE <<>>

classify(cfg, name, cmdline) ==
    LET normalized_name == normalize_process_name(name)
        normalized_cmdline == LowerSeq(Strip(cmdline))
    IN  (IF _is_unauthorized_recorder(cfg, normalized_name)
         THEN <<"unauthorized_recorder">> ELSE <<>>)
        \o
        (IF _matches_any(cfg.suspicious.keylogger_indicators, normalized_name,
                         normalized_cmdline)
         THEN <<"possible_keylogger">> ELSE <<>>)
        \o
        (IF _matches_any(cfg.suspicious.miner_indicators, normalized_name,
                         normalized_cmdline)
         THEN <<"possible_miner">> ELSE <<>>)

(***************************************************************************)
(* agent.OptimizerAgent: the helpers of one cycle.                         *)
(*                                                                         *)
(* st  is the record the cycle threads through its steps:                  *)
(*       hog_windows, priority_cache, seen_suspicion  the agent's maps,    *)
(*       log     the calls, log lines and notifications made so far,       *)
(*       raised  an exception left the step and is on its way to the       *)
(*               `except Exception` of _run_cycle (every later step is     *)
(*               skipped).                                                 *)
(* env is what the cycle reads and does not write: config, dry_run, the    *)
(*     effective mode, whether a Learning Engine is attached, and `fault`, *)
(*     the way the outside world misbehaves in this cycle.                 *)
(***************************************************************************)
NoFault == [at |-> "none", pid |-> 0, kind |-> "none"]

OsKinds == {"same", "denied", "timeout", "timeout_denied", "error"}

Faults ==
    {NoFault}
    \cup {[at |-> a, pid |-> 0, kind |-> "error"] :
            a \in {"snapshot", "foreground", "observe", "autosave"}}
    \cup {[at |-> "os", pid |-> p, kind |-> k] : p \in Pids, k \in OsKinds}

\* What the OS calls on `pid` do in this cycle:
\*   ok              every call succeeds
\*   same            proc.nice() reports the requested priority already
\*   denied          NoSuchProcess / AccessDenied / ZombieProcess
\*   timeout         proc.wait(timeout=3) raises TimeoutExpired, kill succeeds
\*   timeout_denied  as timeout, and proc.kill() raises AccessDenied
\*   error           an exception that the step does not catch
OsResult(env, pid) ==
    IF env.fault.at = "os" /\ env.fault.pid = pid THEN env.fault.kind ELSE "ok"

Event(ev, proc, level, reason) ==
    [ev |-> ev, pid |-> proc.pid, name |-> normalize_process_name(proc.name),
     level |-> level, reason |-> reason, cached |-> 0]

Emit(st, e) == [st EXCEPT !.log = Append(@, e)]

Raise(st) == [st EXCEPT !.raised = TRUE]

\* the step of the cycle that is running; an exception stays with its step
Phase(st, step) == IF st.raised THEN st ELSE [st EXCEPT !.phase = step]

_WINDOWS_PRIORITY ==
    [idle |-> 64, below_normal |-> 16384, normal |-> 32, above_normal |-> 32768,
     high |-> 128]

_priority_for_level(level) == _WINDOWS_PRIORITY[level]

_is_protected(cfg, name) == name \in Range(cfg.protected_processes)

\* _set_priority and _terminate_process without their test of os.getpid()
MutationExcluded_OthersOnly(cfg, proc) ==
    LET name == normalize_process_name(proc.name)
    IN  name = <<>> \/ _is_protected(cfg, name)

\* `if not name or self._is_protected(name) or proc.pid == os.getpid(): return`
MutationExcluded(cfg, proc) ==
    LET name == normalize_process_name(proc.name)
    IN  name = <<>> \/ _is_protected(cfg, name) \/ proc.pid = OwnPid

\* _set_priority without the test of the cache
_set_priority_Uncached(st0, proc, level, reason, env) ==
    LET priority == _priority_for_level(level)
        st == Emit(st0, [Event("call_set_priority", proc, level, reason) EXCEPT
                           !.cached = IF proc.pid \in DOMAIN st0.priority_cache
                                      THEN st0.priority_cache[proc.pid] ELSE 0])
        cached == [st EXCEPT !.priority_cache = DictPut(@, proc.pid, priority)]
        os == OsResult(env, proc.pid)
    IN  IF st0.raised THEN st0
        ELSE IF MutationExcluded(env.config, proc) THEN st
        ELSE IF env.dry_run
             THEN Emit(cached, Event("dry_set_priority", proc, level, reason))
        ELSE IF os = "error" THEN Raise(st)
        ELSE IF os = "denied"
             THEN Emit(st, Event("priority_failed", proc, level, reason))
        ELSE IF os = "same" THEN cached
        ELSE Emit(cached, Event("os_set_priority", proc, level, reason))

_set_priority(st0, proc, level, reason, env) ==
    LET priority == _priority_for_level(level)
        st == Emit(st0, [Event("call_set_priority", proc, level, reason) EXCEPT
                           !.cached = IF proc.pid \in DOMAIN st0.priority_cache
                                      THEN st0.priority_cache[proc.pid] ELSE 0])
        cached == [st EXCEPT !.priority_cache = DictPut(@, proc.pid, priority)]
        os == OsResult(env, proc.pid)
    IN  IF st0.raised THEN st0
        ELSE IF MutationExcluded(env.config, proc) THEN st
        ELSE IF proc.pid \in DOMAIN st.priority_cache
                /\ st.priority_cache[proc.pid] = priority THEN st
        ELSE IF env.dry_run
             THEN Emit(cached, Event("dry_set_priority", proc, level, reason))
        ELSE IF os = "error" THEN Raise(st)
        ELSE IF os = "denied"
             THEN Emit(st, Event("priority_failed", proc, level, reason))
        ELSE IF os = "same" THEN cached
        ELSE Emit(cached, Event("os_set_priority", proc, level, reason))

\* _terminate_process without its dry-run branch
_terminate_process_Live(st0, proc, reason, env) ==
    LET st == Emit(st0, Event("call_terminate", proc, NoLevel, reason))
        called == Emit(st, Event("os_terminate", proc, NoLevel, reason))
    IN  IF st0.raised THEN st0
        ELSE IF MutationExcluded(env.config, proc) THEN st
        ELSE [Emit(called, Event("terminated", proc, NoLevel, reason))
                EXCEPT !.priority_cache = DictPop(@, proc.pid)]

\* a _terminate_process whose kill is not guarded
_terminate_process_KillUnguarded(st0, proc, reason, env) ==
    LET st == Emit(st0, Event("call_terminate", proc, NoLevel, reason))
        called == Emit(st, Event("os_terminate", proc, NoLevel, reason))
        os == OsResult(env, proc.pid)
    IN  IF st0.raised THEN st0
        ELSE IF MutationExcluded(env.config, proc) THEN st
        ELSE IF env.dry_run
             THEN Emit(st, Event("dry_terminate", proc, NoLevel, reason))
        ELSE IF os = "error" THEN Raise(called)
        ELSE IF os = "denied"
             THEN Emit(called, Event("terminate_failed", proc, NoLevel, reason))
        ELSE IF os = "timeout"
             THEN Emit(Emit(called, Event("os_kill", proc, NoLevel, reason)),
                       Event("killed", proc, NoLevel, reason))
        ELSE IF os = "timeout_denied"
             THEN Raise(Emit(called, Event("os_kill", proc, NoLevel, reason)))
        ELSE [Emit(called, Event("terminated", proc, NoLevel, reason))
                EXCEPT !.priority_cache = DictPop(@, proc.pid)]

_terminate_process(st0, proc, reason, env) ==
    LET st == Emit(st0, Event("call_terminate", proc, NoLevel, reason))
        called == Emit(st, Event("os_terminate", proc, NoLevel, reason))
        os == OsResult(env, proc.pid)
    IN  IF st0.raised THEN st0
        ELSE IF MutationExcluded(env.config, proc) THEN st
        ELSE IF env.dry_run
             THEN Emit(st, Event("dry_terminate", proc, NoLevel, reason))
        ELSE IF os = "error" THEN Raise(called)
        ELSE IF os = "denied"
             THEN Emit(called, Event("terminate_failed", proc, NoLevel, reason))
        ELSE IF os = "timeout"
             THEN Emit(Emit(called, Event("os_kill", proc, NoLevel, reason)),
                       Event("killed", proc, NoLevel, reason))
        ELSE IF os = "timeout_denied"
             THEN Emit(Emit(called, Event("os_kill", proc, NoLevel, reason)),
                       Event("kill_failed", proc, NoLevel, reason))
        ELSE [Emit(called, Event("terminated", proc, NoLevel, reason))
                EXCEPT !.priority_cache = DictPop(@, proc.pid)]

\* a resolution that leaves the placeholder in the list when there is no
\* active game
RECURSIVE _resolve_targets_KeepPlaceholder(_, _)
_resolve_targets_KeepPlaceholder(targets, context) ==
    IF targets = <<>> THEN <<>>
    ELSE (IF Head(targets) = ACTIVE_GAME /\ context.active_game # None
          THEN <<context.active_game>> ELSE <<Head(targets)>>)
         \o _resolve_targets_KeepPlaceholder(Tail(targets), context)

RECURSIVE _resolve_targets(_, _)
_resolve_targets(targets, context) ==
    IF targets = <<>> THEN <<>>
    ELSE IF Head(targets) = ACTIVE_GAME
         THEN (IF context.active_game # None THEN <<context.active_game>> ELSE <<>>)
              \o _resolve_targets(Tail(targets), context)
    ELSE <<Head(targets)>> \o _resolve_targets(Tail(targets), context)

\* by_name.get(target, []): the processes named `target`, in snapshot order
_index_by_name(processes, target) ==
    SelectSeq(processes,
              LAMBDA p : normalize_process_name(p.name) # <<>>
                         /\ normalize_process_name(p.name) = target)

\* `for target in targets: for proc in by_name.get(target, [])`
RECURSIVE TargetProcs(_, _)
TargetProcs(targets, processes) ==
    IF targets = <<>> THEN <<>>
    ELSE _index_by_name(processes, Head(targets))
         \o TargetProcs(Tail(targets), processes)

RECURSIVE SetPriorityEach(_, _, _, _, _)
SetPriorityEach(st, procs, level, reason, env) ==
    IF procs = <<>> THEN st
    ELSE SetPriorityEach(_set_priority(st, Head(procs), level, reason, env),
                         Tail(procs), level, reason, env)

\* a close loop that does not ask for the mode
CloseTarget_AnyMode(st, proc, reason, mode, env) ==
    IF st.raised THEN st
    ELSE _terminate_process(Emit(st, Event("close_target", proc, NoLevel, reason)),
                            proc, reason, env)

\* the body of `for proc in by_name.get(target, [])` of the close loop
CloseTarget(st, proc, reason, mode, env) ==
    IF st.raised THEN st
    ELSE IF mode = "safe"
         THEN Emit(Emit(st, Event("close_target", proc, NoLevel, reason)),
                   Event("would_close", proc, NoLevel, reason))
    ELSE _terminate_process(Emit(st, Event("close_target", proc, NoLevel, reason)),
                            proc, reason, env)

RECURSIVE CloseEach(_, _, _, _, _)
CloseEach(st, procs, reason, mode, env) ==
    IF procs = <<>> THEN st
    ELSE CloseEach(CloseTarget(st, Head(procs), reason, mode, env),
                   Tail(procs), reason, mode, env)

\* a boost that is high for the gaming profile only
BoostPriority_GamingOnly(context) ==
    IF context.profile_name = p_gaming THEN "high" ELSE "above_normal"

BoostPriority(context) ==
    IF context.profile_name \in {p_gaming, p_streaming} THEN "high" ELSE "above_normal"

_apply_profile_actions(st, processes, context, env) ==
    LET profile == env.config.profiles[context.profile_name]
        boost_targets == _resolve_targets(profile.boost, context)
        throttle_targets == _resolve_targets(profile.throttle, context)
        close_targets == _resolve_targets(profile.close, context)
        mode == env.mode
        boosted == SetPriorityEach(st, TargetProcs(boost_targets, processes),
                                   BoostPriority(context),
                                   <<context.profile_name, "boost">>, env)
        throttled == SetPriorityEach(boosted, TargetProcs(throttle_targets, processes),
                                     "below_normal",
                                     <<context.profile_name, "throttle">>, env)
    IN  CloseEach(throttled, TargetProcs(close_targets, processes),
                  <<context.profile_name, "close target">>, mode, env)

\* the reading of a process whose info holds no cpu_percent and whose
\* proc.cpu_percent(None) raises NoSuchProcess, AccessDenied or ZombieProcess
CpuDenied == -1

\* a reading a number in proc.info, or one that proc.cpu_percent(None)
\* returns, is that number; a failed read is 0.0
_read_cpu_percent(proc) ==
    IF proc.cpu_percent = CpuDenied THEN 0 ELSE proc.cpu_percent

\* an exemption that leaves the active game out
HogExempt_ListsOnly(cfg, context) ==
    Range(cfg.resource_allowlist) \cup Range(cfg.streaming_processes)

HogExempt(cfg, context) ==
    Range(cfg.resource_allowlist) \cup Range(cfg.streaming_processes)
    \cup (IF context.active_game # None THEN {context.active_game} ELSE {})

\* a fired hog whose counter is left where it is
Rearm_Never(enforced, proc) == enforced

\* `self._hog_windows[proc.pid] = 0`, which an exception of the enforcement
\* skips
Rearm(enforced, proc) ==
    IF enforced.raised THEN enforced
    ELSE [enforced EXCEPT !.hog_windows = DictPut(@, proc.pid, 0)]

\* the enforcement of a fired hog and the re-arming of its counter
HogFire(st, proc, name, mode, env) ==
    LET warned == Emit(st, Event("hog_warning", proc, NoLevel, <<"resource hog">>))
        noted == IF env.learning
                 THEN Emit(warned, Event("observe_hog", proc, NoLevel, <<"resource hog">>))
                 ELSE warned
        enforced ==
            IF mode = "safe"
            THEN Emit(noted, Event("keep_safe", proc, NoLevel, <<"resource hog">>))
            ELSE IF mode = "balanced"
                 THEN _set_priority(noted, proc, "idle", <<"resource hog">>, env)
            ELSE _terminate_process(noted, proc, <<"resource hog">>, env)
    IN  Rearm(enforced, proc)

\* one iteration of `for proc in processes` in _handle_resource_hogs
HogStep(st, proc, exempt, mode, env) ==
    LET name == normalize_process_name(proc.name)
        cpu == _read_cpu_percent(proc)
        count == (IF proc.pid \in DOMAIN st.hog_windows
                  THEN st.hog_windows[proc.pid] ELSE 0) + 1
        counted == [st EXCEPT !.hog_windows = DictPut(@, proc.pid, count)]
    IN  IF st.raised THEN st
        ELSE IF name = <<>> THEN st
        ELSE IF name \in exempt \/ _is_protected(env.config, name) THEN st
        ELSE IF cpu < env.config.hog_cpu_percent
             THEN [st EXCEPT !.hog_windows = DictPop(@, proc.pid)]
        ELSE IF count < env.config.hog_observation_windows THEN counted
        ELSE HogFire(counted, proc, name, mode, env)

RECURSIVE HogEach(_, _, _, _, _)
HogEach(st, procs, exempt, mode, env) ==
    IF procs = <<>> THEN st
    ELSE HogEach(HogStep(st, Head(procs), exempt, mode, env),
                 Tail(procs), exempt, mode, env)

PidsOf(processes) == {processes[i].pid : i \in DOMAIN processes}

\* the trace of a map dropping its entries of the pids in `stale`, from
\* `pid` upwards
RECURSIVE Dropped(_, _, _, _)
Dropped(st, stale, map, pid) ==
    IF pid \notin Pids THEN st
    ELSE Dropped(IF pid \in stale
                 THEN Emit(st, [ev |-> "dropped", pid |-> pid, name |-> <<>>,
                                level |-> NoLevel, reason |-> <<map>>, cached |-> 0])
                 ELSE st,
                 stale, map, pid + 1)

\* `stale = set(self._hog_windows) - live_pids` and its loop
DropStale(scanned, live_pids) ==
    IF scanned.raised THEN scanned
    ELSE [Dropped(scanned, (DOMAIN scanned.hog_windows) \ live_pids, "hog_windows", 1)
            EXCEPT !.hog_windows = [pid \in (DOMAIN @) \cap live_pids |-> @[pid]]]

_handle_resource_hogs(st, processes, context, env) ==
    LET exempt == HogExempt(env.config, context)
        live_pids == PidsOf(processes)
        mode == env.mode
    IN  DropStale(HogEach(st, processes, exempt, mode, env), live_pids)

RECURSIVE Join(_)
Join(args) ==
    IF args = <<>> THEN <<>>
    ELSE IF Len(args) = 1 THEN Head(args)
    ELSE Head(args) \o <<" ">> \o Join(Tail(args))

_format_cmdline(value) == IF value = None THEN <<>> ELSE Join(value)

\* a miner rule that does not look at always_terminate_names
_take_suspicion_action_NoList(st, proc, name, kind, env) ==
    LET mode == env.mode
    IN  IF st.raised THEN st
        ELSE IF mode = "safe"
             THEN Emit(st, Event("no_enforcement", proc, NoLevel, <<kind>>))
        ELSE IF kind = "possible_miner"
             THEN IF mode = "aggressive"
                  THEN _terminate_process(st, proc, <<kind>>, env)
                  ELSE _set_priority(st, proc, "idle", <<kind>>, env)
        ELSE IF kind = "unauthorized_recorder"
             THEN IF mode = "aggressive"
                  THEN _terminate_process(st, proc, <<kind>>, env)
                  ELSE _set_priority(st, proc, "below_normal", <<kind>>, env)
        ELSE IF kind = "possible_keylogger"
             THEN IF mode = "aggressive"
                  THEN _terminate_process(st, proc, <<kind>>, env)
                  ELSE _set_priority(st, proc, "idle", <<kind>>, env)
        ELSE st

\* a keylogger rule that sets idle in every enforcing mode
_take_suspicion_action_Lenient(st, proc, name, kind, env) ==
    LET mode == env.mode
    IN  IF st.raised THEN st
        ELSE IF mode = "safe"
             THEN Emit(st, Event("no_enforcement", proc, NoLevel, <<kind>>))
        ELSE IF kind = "possible_miner"
             THEN IF mode = "aggressive"
                     \/ name \in Range(env.config.suspicious.always_terminate_names)
                  THEN _terminate_process(st, proc, <<kind>>, env)
                  ELSE _set_priority(st, proc, "idle", <<kind>>, env)
        ELSE IF kind = "unauthorized_recorder"
             THEN IF mode = "aggressive"
                  THEN _terminate_process(st, proc, <<kind>>, env)
                  ELSE _set_priority(st, proc, "below_normal", <<kind>>, env)
        ELSE IF kind = "possible_keylogger"
             THEN IF FALSE
                  THEN _terminate_process(st, proc, <<kind>>, env)
                  ELSE _set_priority(st, proc, "idle", <<kind>>, env)
        ELSE st

_take_suspicion_action(st, proc, name, kind, env) ==
    LET mode == env.mode
    IN  IF st.raised THEN st
        ELSE IF mode = "safe"
             THEN Emit(st, Event("no_enforcement", proc, NoLevel, <<kind>>))
        ELSE IF kind = "possible_miner"
             THEN IF mode = "aggressive"
                     \/ name \in Range(env.config.suspicious.always_terminate_names)
                  THEN _terminate_process(st, proc, <<kind>>, env)
                  ELSE _set_priority(st, proc, "idle", <<kind>>, env)
        ELSE IF kind = "unauthorized_recorder"
             THEN IF mode = "aggressive"
                  THEN _terminate_process(st, proc, <<kind>>, env)
                  ELSE _set_priority(st, proc, "below_normal", <<kind>>, env)
        ELSE IF kind = "possible_keylogger"
             THEN IF mode = "aggressive"
                  THEN _terminate_process(st, proc, <<kind>>, env)
                  ELSE _set_priority(st, proc, "idle", <<kind>>, env)
        ELSE st

\* a dedup that skips the whole finding, not only its warning
FindingStep_ActOnce(st, proc, name, kind, env) ==
    LET event_key == <<proc.pid, kind>>
        found == Emit(st, Event("finding", proc, NoLevel, <<kind>>))
        logged == IF event_key \notin st.seen_suspicion
                  THEN [Emit(found, Event("suspicious_warning", proc, NoLevel, <<kind>>))
                          EXCEPT !.seen_suspicion = @ \cup {event_key}]
                  ELSE found
        noted == IF env.learning
                 THEN Emit(logged, Event("observe_suspicion", proc, NoLevel, <<kind>>))
                 ELSE logged
    IN  IF st.raised \/ event_key \in st.seen_suspicion THEN st
        ELSE _take_suspicion_action(noted, proc, name, kind, env)

\* one iteration of `for finding in findings` in _handle_suspicious
FindingStep(st, proc, name, kind, env) ==
    LET event_key == <<proc.pid, kind>>
        found == Emit(st, Event("finding", proc, NoLevel, <<kind>>))
        logged == IF event_key \notin st.seen_suspicion
                  THEN [Emit(found, Event("suspicious_warning", proc, NoLevel, <<kind>>))
                          EXCEPT !.seen_suspicion = @ \cup {event_key}]
                  ELSE found
        noted == IF env.learning
                 THEN Emit(logged, Event("observe_suspicion", proc, NoLevel, <<kind>>))
                 ELSE logged
    IN  IF st.raised THEN st
        ELSE _take_suspicion_action(noted, proc, name, kind, env)

RECURSIVE FindingEach(_, _, _, _, _)
FindingEach(st, proc, name, findings, env) ==
    IF findings = <<>> THEN st
    ELSE FindingEach(FindingStep(st, proc, name, Head(findings), env),
                     proc, name, Tail(findings), env)

\* one iteration of `for proc in processes` in _handle_suspicious
SuspiciousStep(st, proc, env) ==
    LET name == normalize_process_name(proc.name)
        cmdline == _format_cmdline(proc.cmdline)
        findings == classify(env.config, name, cmdline)
    IN  IF st.raised THEN st
        ELSE IF name = <<>> \/ _is_protected(env.config, name) THEN st
        ELSE FindingEach(st, proc, name, findings, env)

RECURSIVE _handle_suspicious(_, _, _)
_handle_suspicious(st, processes, env) ==
    IF processes = <<>> THEN st
    ELSE _handle_suspicious(SuspiciousStep(st, Head(processes), env),
                            Tail(processes), env)

\* a reconciliation that leaves the seen-set alone
_cleanup_state_KeepSeen(st, processes) ==
    LET active_pids == PidsOf(processes)
        uncached == (DOMAIN st.priority_cache) \ active_pids
        unseen == {k[1] : k \in st.seen_suspicion} \ active_pids
    IN  IF st.raised THEN st
        ELSE [Dropped(Dropped(st, uncached, "priority_cache", 1),
                      unseen, "seen_suspicion", 1) EXCEPT
                !.priority_cache = [pid \in (DOMAIN @) \cap active_pids |-> @[pid]]]

_cleanup_state(st, processes) ==
    LET active_pids == PidsOf(processes)
        uncached == (DOMAIN st.priority_cache) \ active_pids
        unseen == {k[1] : k \in st.seen_suspicion} \ active_pids
    IN  IF st.raised THEN st
        ELSE [Dropped(Dropped(st, uncached, "priority_cache", 1),
                      unseen, "seen_suspicion", 1) EXCEPT
                !.priority_cache = [pid \in (DOMAIN @) \cap active_pids |-> @[pid]],
                !.seen_suspicion = {k \in @ : k[1] \in active_pids}]

_apply_profile_override_Bare(context, override) ==
    IF override = None \/ override = <<>> THEN context
    ELSE [profile_name       |-> override,
          active_game        |-> None,
          streaming_active   |-> FALSE,
          foreground_process |-> None]

_apply_profile_override(context, override) ==
    IF override = None \/ override = <<>> THEN context
    ELSE [profile_name       |-> override,
          active_game        |-> context.active_game,
          streaming_active   |-> context.streaming_active,
          foreground_process |-> context.foreground_process]

_effective_mode_ConfigOnly(override, cfg) == cfg.mode

_effective_mode_unlocked(override, cfg) ==
    IF override # "none" THEN override ELSE cfg.mode

RunningNames(processes) ==
    {normalize_process_name(processes[i].name) : i \in DOMAIN processes} \ {<<>>}

(***************************************************************************)
(* LearningEngine: its counters and the suggestions derived from them.     *)
(* The defaultdict(int) counters are one set of entries, an entry for each *)
(* key that was counted: "hog" is _hog_events (key: name), "profile" is    *)
(* _profile_seen (key: <<profile, name>>), "suspicion" is                  *)
(* _suspicion_events (key: <<name, kind>>), "foreground" is                *)
(* _foreground_profile_seen (key: <<profile, name>>).                      *)
(***************************************************************************)
\* learning.min_occurrences, what LearningEngine.__init__ keeps of it
min_occurrences == 2

Entry(counter, key, count) == [counter |-> counter, key |-> key, count |-> count]

\* self._<counter>[key] on a defaultdict(int)
CountOf(cs, counter, key) ==
    LET hits == {e \in cs : e.counter = counter /\ e.key = key}
    IN  IF hits = {} THEN 0 ELSE (CHOOSE e \in hits : TRUE).count

\* the keys of _profile_seen that _build_suggestions reads with
\* self._profile_seen[...]: both session profiles of every hog name that is
\* neither protected nor allowlisted, and the streaming profile of every
\* recorder suspect that came through the tests before the read
ReadKeys(cfg, cs) ==
    {<<profile, e.key>> :
        profile \in {p_gaming, p_streaming},
        e \in {h \in cs : /\ h.counter = "hog"
                           /\ h.key \notin Range(cfg.protected_processes)
                           /\ h.key \notin Range(cfg.resource_allowlist)}}
    \cup {<<p_streaming, e.key[1]>> :
            e \in {u \in cs : /\ u.counter = "suspicion"
                               /\ u.key[2] = "unauthorized_recorder"
                               /\ u.key[1] \notin Range(cfg.suspicious.authorized_recorders)
                               /\ u.key[1] \notin Range(cfg.protected_processes)
                               /\ u.count >= min_occurrences}}

\* the counters after _build_suggestions: a read of a key that a
\* defaultdict(int) does not hold stores the key with 0
Touched(cfg, cs) ==
    cs \cup {Entry("profile", key, 0) :
               key \in {k \in ReadKeys(cfg, cs) :
                           ~\E e \in cs : e.counter = "profile" /\ e.key = k}}

\* a LearningSuggestion without its `reason`, a text that is fixed per target
LearningSuggestion(target, value, confidence, evidence_count) ==
    [target |-> target, value |-> value, confidence |-> confidence,
     evidence_count |-> evidence_count]

\* a resource_allowlist suggestion that counts the gaming sessions only
FromHog_GamingOnly(cfg, cs, e) ==
    LET name == e.key
        session_count == CountOf(cs, "profile", <<p_gaming, name>>)
    IN  IF name \in Range(cfg.protected_processes)
           \/ name \in Range(cfg.resource_allowlist)
        THEN <<>>
        ELSE IF e.count < min_occurrences \/ session_count < min_occurrences
        THEN <<>>
        ELSE <<LearningSuggestion("resource_allowlist", name,
                                  IF e.count >= min_occurrences * 2
                                  THEN "high" ELSE "medium",
                                  e.count)>>

\* the body of `for name, hog_count in self._hog_events.items()`
FromHog(cfg, cs, e) ==
    LET name == e.key
        session_count == CountOf(cs, "profile", <<p_gaming, name>>)
                         + CountOf(cs, "profile", <<p_streaming, name>>)
    IN  IF name \in Range(cfg.protected_processes)
           \/ name \in Range(cfg.resource_allowlist)
        THEN <<>>
        ELSE IF e.count < min_occurrences \/ session_count < min_occurrences
        THEN <<>>
        ELSE <<LearningSuggestion("resource_allowlist", name,
                                  IF e.count >= min_occurrences * 2
                                  THEN "high" ELSE "medium",
                                  e.count)>>

\* the body of `for (name, kind), count in self._suspicion_events.items()`
FromSuspicion(cfg, cs, e) ==
    LET name == e.key[1]
        kind == e.key[2]
    IN  IF kind # "unauthorized_recorder" THEN <<>>
        ELSE IF name \in Range(cfg.suspicious.authorized_recorders)
                \/ name \in Range(cfg.protected_processes)
        THEN <<>>
        ELSE IF e.count < min_occurrences THEN <<>>
        ELSE IF CountOf(cs, "profile", <<p_streaming, name>>) < min_occurrences
        THEN <<>>
        ELSE <<LearningSuggestion("suspicious.authorized_recorders", name,
                                  IF e.count >= min_occurrences * 2
                                  THEN "high" ELSE "medium",
                                  e.count)>>

\* a game_processes suggestion graded as the other targets are
GameSuggestion_Medium(cfg, e) ==
    IF e.key[1] = p_gaming /\ e.key[2] \notin Range(cfg.game_processes)
    THEN <<LearningSuggestion("game_processes", e.key[2],
                              IF e.count >= min_occurrences * 2 THEN "high" ELSE "medium",
                              e.count)>>
    ELSE <<>>

\* `if profile == "gaming" and name not in game_processes:`
GameSuggestion(cfg, e) ==
    IF e.key[1] = p_gaming /\ e.key[2] \notin Range(cfg.game_processes)
    THEN <<LearningSuggestion("game_processes", e.key[2],
                              IF e.count >= min_occurrences * 2 THEN "high" ELSE "low",
                              e.count)>>
    ELSE <<>>

\* `if profile == "streaming" and name not in streaming_processes and name
\* not in game_processes:`
StreamingSuggestion(cfg, e) ==
    IF /\ e.key[1] = p_streaming
       /\ e.key[2] \notin Range(cfg.streaming_processes)
       /\ e.key[2] \notin Range(cfg.game_processes)
    THEN <<LearningSuggestion("streaming_processes", e.key[2],
                              IF e.count >= min_occurrences * 2 THEN "high" ELSE "low",
                              e.count)>>
    ELSE <<>>

\* the body of `for (profile, name), count in
\* self._foreground_profile_seen.items()`
FromForeground(cfg, cs, e) ==
    IF e.count < min_occurrences \/ e.key[2] \in Range(cfg.protected_processes)
    THEN <<>>
    ELSE GameSuggestion(cfg, e) \o StreamingSuggestion(cfg, e)

\* the three loops: `order` lists the entries as the dicts yield them, each
\* dict in the order its keys were inserted in
RECURSIVE Gathered(_, _, _, _)
Gathered(cfg, cs, order, counter) ==
    IF order = <<>> THEN <<>>
    ELSE (IF Head(order).counter # counter THEN <<>>
          ELSE IF counter = "hog" THEN FromHog(cfg, cs, Head(order))
          ELSE IF counter = "suspicion" THEN FromSuspicion(cfg, cs, Head(order))
          ELSE FromForeground(cfg, cs, Head(order)))
         \o Gathered(cfg, cs, Tail(order), counter)

Candidates(cfg, cs, order) ==
    Gathered(cfg, cs, order, "hog") \o Gathered(cfg, cs, order, "suspicion")
    \o Gathered(cfg, cs, order, "foreground")

\* `deduped[key] = suggestion` when the key is new or the evidence larger;
\* a dict keeps a key where it was first inserted
RECURSIVE Deduped(_, _)
Deduped(deduped, suggestions) ==
    IF suggestions = <<>> THEN deduped
    ELSE LET s == Head(suggestions)
             at == {i \in DOMAIN deduped : /\ deduped[i].target = s.target
                                           /\ deduped[i].value = s.value}
         IN  Deduped(IF at = {} THEN Append(deduped, s)
                     ELSE LET i == CHOOSE i \in at : TRUE
                          IN  IF s.evidence_count > deduped[i].evidence_count
                              THEN [deduped EXCEPT ![i] = s]
                              ELSE deduped,
                     Tail(suggestions))

\* python's order of str: by code point, a prefix before its extensions.
\* The code points of the characters of the process names, ascending.
CodePoints == <<"1", "2", "b", "e", "f", "g", "i", "k", "m", "o", "r", "s", "x", "y">>

CodePoint(c) == CHOOSE i \in DOMAIN CodePoints : CodePoints[i] = c

RECURSIVE StrLess(_, _)
StrLess(a, b) ==
    IF b = <<>> THEN FALSE
    ELSE IF a = <<>> THEN TRUE
    ELSE IF Head(a) # Head(b) THEN CodePoint(Head(a)) < CodePoint(Head(b))
    ELSE StrLess(Tail(a), Tail(b))

\* the four targets in python's order of str
Targets ==
    <<"game_processes", "resource_allowlist", "streaming_processes",
      "suspicious.authorized_recorders">>

TargetRank(t) == CHOOSE i \in DOMAIN Targets : Targets[i] = t

\* (item.target, -item.evidence_count, item.value) of a before that of b
KeyLess(a, b) ==
    IF a.target # b.target THEN TargetRank(a.target) < TargetRank(b.target)
    ELSE IF a.evidence_count # b.evidence_count THEN a.evidence_count > b.evidence_count
    ELSE StrLess(a.value, b.value)

\* sorted(): stable, an item goes behind the items its key is not less than
RECURSIVE Inserted(_, _)
Inserted(sorted, s) ==
    IF sorted = <<>> THEN <<s>>
    ELSE IF KeyLess(s, Head(sorted)) THEN <<s>> \o sorted
    ELSE <<Head(sorted)>> \o Inserted(Tail(sorted), s)

RECURSIVE Sorted(_, _)
Sorted(sorted, items) ==
    IF items = <<>> THEN sorted
    ELSE Sorted(Inserted(sorted, Head(items)), Tail(items))

\* _build_suggestions that returns deduped.values() as they are
_build_suggestions_Unsorted(cfg, cs, order) ==
    Deduped(<<>>, Candidates(cfg, cs, order))

_build_suggestions(cfg, cs, order) ==
    Sorted(<<>>, Deduped(<<>>, Candidates(cfg, cs, order)))

(***************************************************************************)
(* The state of one OptimizerAgent and of the thread that runs it.         *)
(***************************************************************************)
VARIABLES
    config,            \* self._config
    dry_run,           \* self._dry_run
    once,              \* self._once
    learning,          \* self._learning_engine is not None
    hog_windows,       \* self._hog_windows
    priority_cache,    \* self._priority_cache
    seen_suspicion,    \* self._seen_suspicion
    mode_override,     \* self._mode_override ("none" for None)
    profile_override,  \* self._profile_override
    latest_context,    \* self._latest_context
    detected,          \* the context detect() returned in the last cycle
    caller,            \* a control thread that calls run() as well: how its
                       \* latest call went
    call,              \* the latest call of a control operation or of a pure
                       \* function: its name, its arguments, its result
    is_running,        \* self._is_running
    stop_event,        \* self._stop_event.is_set()
    pc,                \* where the thread that called run() is
    processes,         \* the snapshot of the last cycle that obtained one
    log,               \* what the last cycle did (st.log)
    abort_at,          \* the step of the last cycle that raised into
                       \* `except Exception` ("none": the cycle ran through)
    cycle_mode,        \* the effective mode the last cycle enforced
    ended_by,          \* why the last run() returned
    world,             \* the machine: its pids, its process images and the
                       \* CPU readings of the daemon; the observers switched on
    fault_count,       \* the cycles in which the outside world misbehaved
    streak,            \* per pid: the cycles it has been hot in, see HotStreak
    hot_cycles,        \* per pid: the same, broken cycles counted, see HotCycles
    consec,            \* per pid: its latest over-threshold cycles, see OverRun
    warned,            \* per (pid, kind): the warnings, see WarningCount
    unreconciled,      \* the pids a broken cycle left entries of, see Unreconciled
    cycles,            \* the cycles of the latest run() call, up to MaxCycles
    counters,          \* the counters of self._learning_engine, see Entry
    disk,              \* the snapshot file at learning.output_path
    saving,            \* where a control thread is in save_learning_snapshot()
    saved,             \* the latest attempt to write the snapshot, see Attempt
    state_lock,        \* the thread that holds self._state_lock ("free": none)
    last_fault,        \* how the outside world misbehaved in the last cycle,
                       \* for the specifications that follow it, see Faults
    lock_script        \* per thread: the call it is in and the acquisitions and
                       \* releases of self._state_lock the call has yet to make,
                       \* for the specification that follows them, see LockScript

vars ==
    <<config, dry_run, once, learning, hog_windows, priority_cache, seen_suspicion,
      mode_override, profile_override, latest_context, detected, caller, call,
      is_running, stop_event, pc, processes, log, abort_at, cycle_mode, ended_by, world, fault_count, streak, hot_cycles,
      consec, warned, unreconciled, cycles, counters, disk, saving, saved, state_lock,
      last_fault, lock_script>>

agent_maps == <<hog_windows, priority_cache, seen_suspicion>>

\* what no step of the agent changes
settings == <<config, dry_run, once, learning, world, lock_script>>

callers == <<caller, call, cycles>>

engine == <<counters, disk, saving, saved>>

cycle_record ==
    <<processes, log, abort_at, cycle_mode, latest_context, detected, streak, hot_cycles, consec,
      warned, unreconciled, last_fault>>

raised == abort_at # "none"

NoContext ==
    [profile_name |-> None, active_game |-> None, streaming_active |-> FALSE,
     foreground_process |-> None]

NoCall == [op |-> "none"]

\* the snapshot file: the stamp of the save that opened it last (0: no file
\* yet), the thread of that save, and whether the file holds one whole text
File(save, opener, whole) == [save |-> save, opener |-> opener, whole |-> whole]

NoFile == File(0, "none", TRUE)

\* the threads that call into the learning engine: the one in run() and a
\* control thread (tray.AgentController)
Threads == {"loop", "control"}

\* one save_now call: which save it was, how it ended, how that was logged,
\* and whether it left the file as it found it
Attempt(kind, outcome, report, kept) ==
    [kind |-> kind, outcome |-> outcome, report |-> report, kept |-> kept]

NoAttempt == Attempt("none", "none", "none", TRUE)

\* a thread that is in no call of the agent
NoScript == [op |-> "none", todo |-> <<>>]

\* the agent right after OptimizerAgent.__init__
Constructed ==
    /\ hog_windows = EmptyDict
    /\ priority_cache = EmptyDict
    /\ seen_suspicion = {}
    /\ mode_override = "none"
    /\ profile_override = None
    /\ latest_context = NoContext
    /\ detected = NoContext
    /\ caller = "none"
    /\ call = NoCall
    /\ is_running = FALSE
    /\ stop_event = FALSE
    /\ pc = "idle"
    /\ processes = <<>>
    /\ log = <<>>
    /\ abort_at = "none"
    /\ cycle_mode = "none"
    /\ ended_by = "none"
    /\ disk = NoFile
    /\ saving = "idle"
    /\ saved = [t \in Threads |-> NoAttempt]
    /\ state_lock = "free"
    /\ last_fault = NoFault
    /\ lock_script = [t \in Threads |-> NoScript]

(***************************************************************************)
(* The snapshots psutil.process_iter can return: the daemon's own process  *)
(* is always listed; every other pid is either free or names a process.    *)
(* A pid that is listed in two consecutive snapshots names the same        *)
(* process in both (a pid is not reused within one tick).  The list is in  *)
(* pid order, as psutil yields it.                                         *)
(***************************************************************************)
ImageOf(procs, pid) ==
    LET i == CHOOSE i \in DOMAIN procs : procs[i].pid = pid
    IN  [name |-> procs[i].name, cmdline |-> procs[i].cmdline]

ImagesFor(pid) ==
    IF pid = OwnPid THEN {DaemonImage}
    ELSE IF pid \in PidsOf(processes) THEN {ImageOf(processes, pid)}
    ELSE world.images

RECURSIVE SnapshotsFrom(_)
SnapshotsFrom(pid) ==
    IF pid > world.max_pid THEN {<<>>}
    ELSE LET rest == SnapshotsFrom(pid + 1)
             here == {<<Proc(pid, im, cpu)>> :
                         im \in ImagesFor(pid),
                         cpu \in IF pid = OwnPid THEN world.daemon_cpu ELSE CpuValues}
         IN  {h \o r : h \in here, r \in rest}
             \cup (IF pid = OwnPid THEN {} ELSE rest)

Snapshots == SnapshotsFrom(1)

\* windows_focus.get_foreground_process_name: the normalised name of the
\* process that owns the focused window, or None.  A foreground process
\* that is no configured game changes nothing but the context's
\* foreground_process field and is left out.
Foregrounds(procs) == {None} \cup (RunningNames(procs) \cap Range(config.game_processes))

(***************************************************************************)
(* OptimizerAgent._run_cycle, from the snapshot to the `except Exception`. *)
(***************************************************************************)
\* the steps of the try body that come before the profile actions: the
\* snapshot, the foreground lookup, the learning observation
Begin(st0, env) ==
    IF env.fault.at \in {"snapshot", "foreground"}
       \/ (env.learning /\ env.fault.at = "observe")
    THEN Raise(Phase(st0, env.fault.at))
    ELSE st0

\* `if self._learning_engine: self._learning_engine.save_if_due(...)`
Autosave(cleaned, env) ==
    IF env.learning /\ env.fault.at = "autosave" /\ ~cleaned.raised
    THEN Raise(Phase(cleaned, "autosave"))
    ELSE cleaned

\* `except Exception: LOGGER.exception(...)`, and what the cycle leaves
Outcome(st, context, env) ==
    [st |-> IF st.raised
            THEN Emit(st, [ev |-> "unhandled_error", pid |-> 0, name |-> <<>>,
                           level |-> NoLevel, reason |-> <<st.phase>>, cached |-> 0])
            ELSE st,
     context |-> context,
     abort_at |-> IF st.raised THEN st.phase ELSE "none"]

_run_cycle(st0, procs, foreground, override, old_context, env) ==
    LET context == _apply_profile_override(
                       detect(env.config, RunningNames(procs), foreground), override)
    IN  Outcome(Autosave(_cleanup_state(
                    _handle_suspicious(Phase(
                        _handle_resource_hogs(Phase(
                            _apply_profile_actions(Phase(Begin(st0, env), "profile"),
                                                   procs, context, env),
                            "hogs"), procs, context, env),
                        "suspicious"), procs, env),
                    procs), env),
                IF env.fault.at \in {"snapshot", "foreground"}
                THEN old_context ELSE context,
                env)

(***************************************************************************)
(* LearningEngine: what a cycle adds to the counters.  A count stops at    *)
(* MaxCount: no suggestion tells larger counts apart.                      *)
(***************************************************************************)
MaxCount == 2 * min_occurrences

\* self._<counter>[key] += 1
Bumped(cs, counter, key) ==
    LET count == CountOf(cs, counter, key)
    IN  {e \in cs : ~(e.counter = counter /\ e.key = key)}
        \cup {Entry(counter, key, IF count < MaxCount THEN count + 1 ELSE MaxCount)}

\* `for proc in processes` in observe_cycle
RECURSIVE ObservedProcs(_, _, _)
ObservedProcs(cs, procs, profile) ==
    IF procs = <<>> THEN cs
    ELSE LET name == normalize_process_name(Head(procs).name)
         IN  ObservedProcs(IF name = <<>> THEN cs
                           ELSE Bumped(Bumped(cs, "process", name),
                                       "profile", <<profile, name>>),
                           Tail(procs), profile)

\* an observe_cycle that counts a name once, however many processes have it
observe_cycle_OncePerName(cs, procs, context) ==
    LET first == SelectSeq(procs,
                           LAMBDA p : \A i \in DOMAIN procs :
                                         /\ procs[i].pid < p.pid
                                         => normalize_process_name(procs[i].name)
                                              # normalize_process_name(p.name))
        seen == ObservedProcs(cs, first, context.profile_name)
    IN  IF context.foreground_process = None \/ context.foreground_process = <<>>
        THEN seen
        ELSE Bumped(seen, "foreground",
                    <<context.profile_name, context.foreground_process>>)

observe_cycle(cs, procs, context) ==
    LET seen == ObservedProcs(cs, procs, context.profile_name)
    IN  IF context.foreground_process = None \/ context.foreground_process = <<>>
        THEN seen
        ELSE Bumped(seen, "foreground",
                    <<context.profile_name, context.foreground_process>>)

\* the observe_hog and observe_suspicion calls of a cycle, from its trace
RECURSIVE ObservedEvents(_, _)
ObservedEvents(cs, trace) ==
    IF trace = <<>> THEN cs
    ELSE LET e == Head(trace)
             name == normalize_process_name(e.name)
         IN  ObservedEvents(
                 IF e.ev = "observe_hog" /\ name # <<>>
                 THEN Bumped(cs, "hog", name)
                 ELSE IF e.ev = "observe_suspicion" /\ name # <<>>
                 THEN Bumped(cs, "suspicion", <<name, e.reason[1]>>)
                 ELSE cs,
                 Tail(trace))

\* the counters after a cycle that `at` says how far it came
Observed(cs, procs, context, trace, at) ==
    ObservedEvents(IF at \in {"snapshot", "foreground", "observe"} THEN cs
                   ELSE observe_cycle(cs, procs, context),
                   trace)

(***************************************************************************)
(* LearningEngine.save_now and the snapshot file.  write_text opens the    *)
(* file for writing, which empties it, writes the text and closes it; the  *)
(* file is whole once the text is in it.  The saves are stamped 1, 2, ..   *)
(* MaxSaves, 1, ..: a save and the save before it have different stamps.   *)
(***************************************************************************)
MaxSaves == 2

Stamp(d) == (d.save % MaxSaves) + 1

\* the file after a save_now that raised OSError: in mkdir or in open(), the
\* file as it was; in the write, the file opened and not written to its end
FailedSaves(d, thread) == {d, File(Stamp(d), thread, FALSE)}

WrittenBy(d, thread) == File(Stamp(d), thread, TRUE)

\* save_if_due at the end of the try body of _run_cycle: not due, or due
\* and written, or due and raising into `except Exception`
Autosaves(at, d, s) ==
    IF ~learning \/ "disk" \notin world.observers \/ at \notin {"none", "autosave"}
    THEN {[disk |-> d, saved |-> s, ran |-> FALSE]}
    ELSE IF at = "autosave"
    THEN {[disk |-> after, ran |-> TRUE,
           saved |-> [s EXCEPT !["loop"] =
                         Attempt("autosave", "failed", "exception", after = d)]] :
             after \in FailedSaves(d, "loop")}
    ELSE {[disk |-> d, saved |-> s, ran |-> FALSE],
          [disk |-> WrittenBy(d, "loop"), ran |-> TRUE,
           saved |-> [s EXCEPT !["loop"] =
                         Attempt("autosave", "written", "info", FALSE)]]}

\* save_learning_snapshot() in the `finally` of run(): written, or OSError
\* caught and logged as a warning
FinalSaves(d, s) ==
    IF ~learning \/ "disk" \notin world.observers
    THEN {[disk |-> d, saved |-> s]}
    ELSE {[disk |-> WrittenBy(d, "loop"),
           saved |-> [s EXCEPT !["loop"] =
                         Attempt("final", "written", "info", FALSE)]]}
         \cup {[disk |-> after,
                saved |-> [s EXCEPT !["loop"] =
                              Attempt("final", "failed", "warning", after = d)]] :
                  after \in FailedSaves(d, "loop")}

\* the counters after a save_now of a specification that follows them
SaveTouched(cs) ==
    IF learning /\ "counters" \in world.observers THEN Touched(config, cs) ELSE cs

FinalSave(d, s) ==
    \E f \in FinalSaves(d, s) : disk' = f.disk /\ saved' = f.saved

(***************************************************************************)
(* run(): the thread's steps.                                              *)
(*   pc = "idle"  no run() call is in progress                             *)
(*   pc = "start" a thread with target run() is started, run() not entered *)
(*   pc = "loop"  at `while not self._stop_event.is_set()`                 *)
(*   pc = "cycle" in self._run_cycle()                                     *)
(*   pc = "wait"  in `self._stop_event.wait(loop_interval_seconds)`        *)
(***************************************************************************)
\* a loop thread that keeps the state lock for the whole of _run_cycle
LockHeldAt_WholeCycle(where) == IF where = "cycle" THEN "loop" ELSE "free"

\* the holder of self._state_lock (a threading.Lock) when the thread in
\* run() has come to `where`: every `with self._state_lock:` block of run,
\* _run_cycle, _apply_profile_override and _effective_mode holds reads and
\* assignments of the shared fields only and is left before the step ends
LockHeldAt(where) == "free"

\* where the thread in run() is when a control operation is called, for the
\* specifications that follow it
During == IF "calls" \in world.observers THEN pc ELSE "unobserved"

\* the `finally` of run(): the final learning save, then the running flag
Finish(why) ==
    /\ is_running' = FALSE
    /\ pc' = "idle"
    /\ ended_by' = why

\* run() up to the loop: the running guard, the flag, clearing the stop
\* event, priming the CPU counters
Run ==
    /\ pc \in {"idle", "start"}
    /\ state_lock = "free"
    /\ ~is_running
    /\ is_running' = TRUE
    /\ stop_event' = FALSE
    /\ pc' = "loop"
    /\ state_lock' = LockHeldAt("loop")
    /\ ended_by' = "none"
    /\ cycles' = 0
    /\ UNCHANGED <<caller, call, fault_count, settings, engine, agent_maps, mode_override,
                   profile_override, cycle_record>>

\* a run() call whose _prime_cpu_counters() raises (psutil.process_iter
\* failing, an exception of proc.cpu_percent other than the three it
\* catches, a KeyboardInterrupt): the call is before the `try` of run(), so
\* the exception leaves run() past its `finally`
RunPrimeFails ==
    /\ pc \in {"idle", "start"}
    /\ state_lock = "free"
    /\ ~is_running
    /\ fault_count < MaxFaults
    /\ fault_count' = fault_count + 1
    /\ is_running' = TRUE
    /\ stop_event' = FALSE
    /\ pc' = "idle"
    /\ ended_by' = "prime_error"
    /\ cycles' = 0
    /\ UNCHANGED <<caller, call, settings, engine, state_lock, agent_maps, mode_override,
                   profile_override, cycle_record>>

\* AgentController.start: threading.Thread(target=self._agent.run).start()
\* on an agent that has not run yet
ThreadStart ==
    /\ pc = "idle"
    /\ ~is_running
    /\ ended_by = "none"
    /\ pc' = "start"
    /\ UNCHANGED <<callers, fault_count, settings, engine, state_lock, agent_maps,
                   mode_override, profile_override, cycle_record, is_running, stop_event,
                   ended_by>>

AlreadyRunning_Never(flag) == FALSE

\* `if self._is_running:` under the state lock
AlreadyRunning(flag) == flag

\* run() called by another thread while the run() of the loop thread is in
\* progress: the running guard, and behind it the flag and the stop event
\* as in Run (caller = "loop": the call went on into a loop of its own)
RunSecond ==
    /\ pc # "idle"
    /\ state_lock = "free"
    /\ IF AlreadyRunning(is_running)
       THEN caller' = "returned" /\ UNCHANGED <<is_running, stop_event>>
       ELSE caller' = "loop" /\ is_running' = TRUE /\ stop_event' = FALSE
    /\ UNCHANGED <<call, cycles, fault_count, settings, engine, state_lock, agent_maps, mode_override,
                   profile_override, cycle_record, pc, ended_by>>

(***************************************************************************)
(* Observers.  They record what the environment did, cycle after cycle,    *)
(* so that the claims about several cycles can be stated; the agent does   *)
(* not read them.                                                          *)
(***************************************************************************)
WorldPids == 1..world.max_pid

Unobserved ==
    /\ streak = [p \in WorldPids |-> 0]
    /\ hot_cycles = [p \in WorldPids |-> 0]
    /\ consec = [p \in WorldPids |-> 0]
    /\ warned = [k \in WorldPids \X Kinds |-> 0]
    /\ unreconciled = {}
    /\ cycles = 0

HogScanDone(at) == at \in {"none", "suspicious", "autosave"}

ReconciliationDone(at) == at \in {"none", "autosave"}

ProcOf(procs, pid) == procs[CHOOSE i \in DOMAIN procs : procs[i].pid = pid]

\* the processes the hog scan skips in a cycle with this context
HogSkipped(proc, context) ==
    LET name == normalize_process_name(proc.name)
    IN  name = <<>> \/ name \in HogExempt(config, context) \/ _is_protected(config, name)

Hot(proc) == proc.cpu_percent >= config.hog_cpu_percent

\* HotStreak: n >= 0 when the pid's process has been listed, not exempt
\* and at or above the threshold in each of the n cycles since the pid came
\* into the snapshots, and the hog scan of each of them ran to its end;
\* -1 when the process has not been so on every cycle (or for more than
\* MaxStreak cycles)
HotStreak(old, pid, procs, context, at) ==
    IF ~HogScanDone(at) THEN -1
    ELSE IF pid \notin PidsOf(procs) THEN 0
    ELSE IF HogSkipped(ProcOf(procs, pid), context) \/ ~Hot(ProcOf(procs, pid)) THEN -1
    ELSE IF old = -1 \/ old >= MaxStreak THEN -1
    ELSE old + 1

\* HotCycles: HotStreak over all the cycles that took a snapshot and
\* detected a context, the ones that an exception ended later included;
\* -1 after a cycle without them
HotCycles(old, pid, procs, context, at) ==
    IF at \in {"snapshot", "foreground"} THEN -1
    ELSE IF pid \notin PidsOf(procs) THEN 0
    ELSE IF HogSkipped(ProcOf(procs, pid), context) \/ ~Hot(ProcOf(procs, pid)) THEN -1
    ELSE IF old = -1 \/ old >= MaxStreak THEN -1
    ELSE old + 1

\* OverRun: in how many of the latest cycles in a row the pid was listed at
\* or above the threshold (counted up to hog_observation_windows).  A cycle
\* without a snapshot shows nothing; a cycle that an exception ends before
\* the hog scan is done is not held against the code.
OverRun(old, pid, procs, at) ==
    IF at = "snapshot" THEN old
    ELSE IF ~HogScanDone(at) THEN config.hog_observation_windows
    ELSE IF pid \notin PidsOf(procs) THEN 0
    ELSE IF ~Hot(ProcOf(procs, pid)) THEN 0
    ELSE IF old >= config.hog_observation_windows THEN old
    ELSE old + 1

\* WarningCount: how many "Suspicious process" warnings (counted up to 2)
\* the (pid, kind) got since the pid came into the snapshots
WarningCount(old, key, procs, trace, at) ==
    LET now == IF \E i \in DOMAIN trace :
                     /\ trace[i].ev = "suspicious_warning"
                     /\ trace[i].pid = key[1]
                     /\ trace[i].reason = <<key[2]>>
               THEN 1 ELSE 0
        before == IF at = "snapshot" THEN old
                  ELSE IF key[1] \notin PidsOf(procs) THEN 0
                  ELSE old
    IN  IF before + now > 2 THEN 2 ELSE before + now

\* Unreconciled: the pids that were off the snapshot of a cycle that an
\* exception ended before _cleanup_state, and that no later cycle with
\* _cleanup_state found off its snapshot
Unreconciled(old, procs, at) ==
    IF at = "snapshot" THEN old
    ELSE IF ReconciliationDone(at) THEN old \cap PidsOf(procs)
    ELSE old \cup (WorldPids \ PidsOf(procs))

\* the faults that can show in a cycle over snapshot `procs`
FaultsFor(procs) ==
    {f \in (IF fault_count < MaxFaults THEN Faults ELSE {NoFault}) :
        /\ f.at = "os" => f.pid \in PidsOf(procs) \ {OwnPid} /\ ~dry_run
        /\ f.at \in {"observe", "autosave"} => learning}

\* a _run_cycle without its `except Exception`: the exception of a failed
\* cycle leaves the loop of run()
AfterCycle_Propagating(failed) ==
    IF failed \/ once
    THEN Finish(IF failed THEN "error" ELSE "once")
    ELSE pc' = "wait" /\ UNCHANGED <<is_running, ended_by>>

AfterCycle_NeverBreaks(failed) ==
    pc' = "wait" /\ UNCHANGED <<is_running, ended_by>>

\* run() after self._run_cycle() has returned, which it does whether or not
\* the cycle failed: `if self._once: break`, else on to the wait
AfterCycle(failed) ==
    IF once
    THEN Finish("once")
    ELSE pc' = "wait" /\ UNCHANGED <<is_running, ended_by>>

\* the loop test finds the stop event clear: on to self._run_cycle()
LoopEnter ==
    /\ pc = "loop"
    /\ ~stop_event
    /\ pc' = "cycle"
    /\ state_lock' = LockHeldAt("cycle")
    /\ UNCHANGED <<callers, fault_count, settings, engine, agent_maps, mode_override,
                   profile_override, cycle_record, is_running, stop_event, ended_by>>

\* the body of one iteration of the loop: _run_cycle and the
\* `if self._once: break`
RunCycle ==
    /\ pc = "cycle"
    /\ state_lock = "free"
    /\ \E procs \in Snapshots :
       \E foreground \in Foregrounds(procs) :
       \E fault \in FaultsFor(procs) :
          /\ processes' = IF fault.at = "snapshot" THEN processes ELSE procs
          /\ fault_count' = IF fault = NoFault THEN fault_count ELSE fault_count + 1
          /\ detected' = IF fault.at \in {"snapshot", "foreground"} THEN detected
                          ELSE detect(config, RunningNames(procs), foreground)
          /\ LET env == [config |-> config, dry_run |-> dry_run, learning |-> learning,
                         mode |-> _effective_mode_unlocked(mode_override, config),
                         fault |-> fault]
                 st0 == [hog_windows |-> hog_windows, priority_cache |-> priority_cache,
                         seen_suspicion |-> seen_suspicion, log |-> <<>>,
                         raised |-> FALSE, phase |-> "start"]
             IN  \E r \in {_run_cycle(st0, procs, foreground, profile_override,
                                       latest_context, env)} :
                 /\ hog_windows' = r.st.hog_windows
                 /\ priority_cache' = r.st.priority_cache
                 /\ seen_suspicion' = r.st.seen_suspicion
                 /\ log' = r.st.log
                 /\ abort_at' = r.abort_at
                 /\ streak' = IF "streak" \notin world.observers THEN streak
                               ELSE [p \in WorldPids |->
                                        HotStreak(streak[p], p, procs, r.context, r.abort_at)]
                 /\ hot_cycles' = IF "streak" \notin world.observers THEN hot_cycles
                                   ELSE [p \in WorldPids |->
                                            HotCycles(hot_cycles[p], p, procs, r.context,
                                                      r.abort_at)]
                 /\ consec' = IF "consec" \notin world.observers THEN consec
                               ELSE [p \in WorldPids |->
                                        OverRun(consec[p], p, procs, r.abort_at)]
                 /\ warned' = IF "warned" \notin world.observers THEN warned
                               ELSE [k \in WorldPids \X Kinds |->
                                        WarningCount(warned[k], k, procs, r.st.log,
                                                     r.abort_at)]
                 /\ unreconciled' = IF "warned" \notin world.observers THEN unreconciled
                                     ELSE Unreconciled(unreconciled, procs, r.abort_at)
                 /\ cycle_mode' = env.mode
                 /\ last_fault' = IF "faults" \in world.observers THEN fault ELSE NoFault
                 /\ latest_context' = r.context
    /\ AfterCycle(abort_at' # "none")
    /\ \E a \in Autosaves(abort_at', disk, saved) :
          /\ IF pc' = "idle"
             THEN FinalSave(a.disk, a.saved)
             ELSE disk' = a.disk /\ saved' = a.saved
          /\ counters' =
                IF "counters" \notin world.observers THEN counters
                ELSE LET seen == Observed(counters, processes', latest_context', log',
                                          abort_at')
                     IN  IF a.ran \/ pc' = "idle" THEN SaveTouched(seen) ELSE seen
    /\ cycles' = IF "cycles" \notin world.observers \/ cycles >= MaxCycles THEN cycles
                  ELSE cycles + 1
    /\ state_lock' = LockHeldAt(pc')
    /\ UNCHANGED <<caller, call, settings, saving, mode_override, profile_override,
                   stop_event>>

\* the loop test finds the stop event set
LoopExit ==
    /\ pc = "loop"
    /\ stop_event
    /\ state_lock = "free"
    /\ Finish("stop")
    /\ FinalSave(disk, saved)
    /\ counters' = SaveTouched(counters)
    /\ state_lock' = LockHeldAt("idle")
    /\ UNCHANGED <<callers, fault_count, settings, saving, agent_maps,
                   mode_override, profile_override, cycle_record, stop_event>>

WaitReturn_WaitsOut ==
    /\ pc = "wait"
    /\ pc' = "loop"
    /\ UNCHANGED <<callers, fault_count, settings, engine, state_lock, agent_maps, mode_override,
                   profile_override, cycle_record, stop_event, is_running, ended_by>>

\* self._stop_event.wait(interval) returns: True when the event is set,
\* False when the interval has passed
WaitReturn ==
    /\ pc = "wait"
    /\ IF stop_event
       THEN /\ state_lock = "free" /\ Finish("stop") /\ FinalSave(disk, saved)
            /\ counters' = SaveTouched(counters)
       ELSE pc' = "loop" /\ UNCHANGED <<is_running, ended_by, disk, saved, counters>>
    /\ state_lock' = LockHeldAt(pc')
    /\ UNCHANGED <<callers, fault_count, settings, saving, agent_maps,
                   mode_override, profile_override, cycle_record, stop_event>>

\* KeyboardInterrupt reaches the thread inside the loop
Interrupt ==
    /\ pc \in {"loop", "cycle", "wait"}
    /\ state_lock = "free"
    /\ Finish("interrupt")
    /\ FinalSave(disk, saved)
    /\ counters' = SaveTouched(counters)
    /\ state_lock' = LockHeldAt("idle")
    /\ UNCHANGED <<callers, fault_count, settings, saving, agent_maps,
                   mode_override, profile_override, cycle_record, stop_event>>

\* a control thread in AgentController.save_learning_snapshot ->
\* OptimizerAgent.save_learning_snapshot -> save_now, up to the open() of
\* write_text: the suggestions are built, then OSError from mkdir or open()
\* is caught and logged as a warning and the file is as it was, else the
\* file is open and empty
ForcedSaveBegin ==
    /\ saving = "idle"
    /\ learning
    /\ \/ /\ saved' = [saved EXCEPT !["control"] =
                          Attempt("forced", "failed", "warning", TRUE)]
          /\ UNCHANGED <<disk, saving>>
       \/ /\ disk' = File(Stamp(disk), "control", FALSE)
          /\ saving' = "writing"
          /\ saved' = [saved EXCEPT !["control"] =
                          Attempt("forced", "writing", "none", FALSE)]
    /\ counters' = SaveTouched(counters)
    /\ UNCHANGED <<callers, fault_count, settings, state_lock, agent_maps,
                   mode_override, profile_override, cycle_record, is_running, stop_event,
                   pc, ended_by>>

\* the file once the text of the control thread is written into it: whole
\* when no other save has opened the file since, else the text over what
\* that save wrote, which leaves a whole file or a mixture of the two
Overwritten(d) ==
    IF d.opener = "control" THEN {[d EXCEPT !.whole = TRUE]}
    ELSE {File(Stamp(d), "control", w) : w \in BOOLEAN}

\* the rest of that write_text: the text is written and the file closed,
\* or the write raises OSError, which is caught and logged as a warning
ForcedSaveEnd ==
    /\ saving = "writing"
    /\ saving' = "idle"
    /\ \/ \E after \in Overwritten(disk) :
             /\ disk' = after
             /\ saved' = [saved EXCEPT !["control"] =
                             Attempt("forced", "written", "info", FALSE)]
       \/ /\ disk' = disk
          /\ saved' = [saved EXCEPT !["control"] =
                          Attempt("forced", "failed", "warning", FALSE)]
    /\ UNCHANGED <<callers, fault_count, settings, counters, state_lock, agent_maps,
                   mode_override, profile_override, cycle_record, is_running, stop_event,
                   pc, ended_by>>

Stop ==
    /\ ~stop_event
    /\ stop_event' = TRUE
    /\ UNCHANGED <<callers, fault_count, settings, engine, state_lock, agent_maps, mode_override, profile_override, cycle_record,
                   is_running, pc, ended_by>>

\* set_mode_override(mode), mode None ("none") to clear
SetModeOverride ==
    /\ state_lock = "free"
    /\ \E mode \in Modes \cup {"none"} :
          /\ mode_override' = mode
          /\ call' = [op |-> "set_mode_override", mode |-> mode, during |-> During]
    /\ UNCHANGED <<caller, cycles, fault_count, settings, engine, state_lock, agent_maps, profile_override,
                   cycle_record, is_running, stop_event, pc, ended_by>>

ProfileInputs ==
    {None, <<>>, <<"G", "a", "m", "i", "n", "g">>, <<" ", "d", "e", "f", "a", "u", "l",
     "t">>, <<"x">>}

StoredOverride_Unchecked(cfg, profile, old) ==
    [raised |-> FALSE,
     stored |-> IF normalize_process_name(profile) # <<>>
                THEN normalize_process_name(profile) ELSE None]

\* set_profile_override(profile): whether it raises ValueError, and the
\* override that is stored when it returns or raises
StoredOverride(cfg, profile, old) ==
    IF normalize_process_name(profile) # <<>>
       /\ normalize_process_name(profile) \notin DOMAIN cfg.profiles
    THEN [raised |-> TRUE, stored |-> old]
    ELSE [raised |-> FALSE,
          stored |-> IF normalize_process_name(profile) # <<>>
                     THEN normalize_process_name(profile) ELSE None]

SetProfileOverride ==
    /\ \E profile \in ProfileInputs :
          /\ StoredOverride(config, profile, profile_override).raised
             \/ state_lock = "free"
          /\ profile_override' = StoredOverride(config, profile, profile_override).stored
          /\ call' = [op |-> "set_profile_override", profile |-> profile,
                      raised |-> StoredOverride(config, profile, profile_override).raised,
                      during |-> During]
    /\ UNCHANGED <<caller, cycles, fault_count, settings, engine, state_lock, agent_maps, mode_override,
                   cycle_record, is_running, stop_event, pc, ended_by>>

\* `running=self._is_running and not self._stop_event.is_set()`
_status_running(flag, event) == flag /\ ~event

\* status(): the AgentStatus it returns
Status ==
    /\ state_lock = "free"
    /\ call' = [op |-> "status",
                during |-> During,
                running |-> _status_running(is_running, stop_event),
                effective_mode |-> _effective_mode_unlocked(mode_override, config),
                profile_override |-> profile_override,
                current_profile |-> latest_context.profile_name,
                active_game |-> latest_context.active_game,
                streaming_active |-> latest_context.streaming_active,
                foreground_process |-> latest_context.foreground_process]
    /\ UNCHANGED <<caller, cycles, fault_count, settings, engine, state_lock, agent_maps, mode_override,
                   profile_override, cycle_record, is_running, stop_event, pc, ended_by>>

(***************************************************************************)
(* Spec: the daemon as `fixer run` starts it (__main__._run_command): one  *)
(* thread in run(), no control thread.  Every image can run on the         *)
(* machine.                                                                *)
(***************************************************************************)
Init ==
    /\ Constructed
    /\ counters = {}
    /\ config \in Configs
    /\ dry_run \in BOOLEAN
    /\ once = FALSE
    /\ learning = TRUE
    /\ world = [max_pid |-> MaxPid, images |-> Images,
                daemon_cpu |-> {hog_cpu_percent - 1}, observers |-> {"streak", "warned"}]
    /\ fault_count = 0
    /\ Unobserved

Next ==
    \/ Run
    \/ LoopEnter
    \/ RunCycle
    \/ WaitReturn

Spec == Init /\ [][Next]_vars

(***************************************************************************)
(* SpecGames: the same driver on a machine where two configured games can  *)
(* run side by side and the foreground moves between them, and where no    *)
(* call of the agent fails.                                                *)
(***************************************************************************)
GameImages == {i \in Images : normalize_process_name(i.name) \in {n_g1, n_g2}}

InitGames ==
    /\ Constructed
    /\ counters = {}
    /\ config \in {AppConfig(m, MaxWindows) : m \in {"balanced", "aggressive"}}
    /\ dry_run = FALSE
    /\ once = FALSE
    /\ learning = TRUE
    /\ world = [max_pid |-> MaxPid + 1, images |-> GameImages,
                daemon_cpu |-> {hog_cpu_percent - 1}, observers |-> {"consec"}]
    /\ fault_count = MaxFaults
    /\ Unobserved

SpecGames == InitGames /\ [][Next]_vars

(***************************************************************************)
(* SpecControl: the daemon under a driver that can end it: stop() and an   *)
(* interrupt can come at any point of the loop, and run-once is an option. *)
(***************************************************************************)
ControlImages == {i \in Images : normalize_process_name(i.name) = n_key}

InitControl ==
    /\ Constructed
    /\ counters = {}
    /\ config \in {AppConfig("balanced", 1)}
    /\ dry_run = FALSE
    /\ once \in BOOLEAN
    /\ learning = TRUE
    /\ world = [max_pid |-> MaxPid, images |-> ControlImages,
                daemon_cpu |-> CpuValues, observers |-> {"cycles"}]
    /\ fault_count = 0
    /\ Unobserved

NextControl ==
    \/ Run
    \/ LoopEnter
    \/ RunCycle
    \/ WaitReturn
    \/ LoopExit
    \/ Interrupt
    \/ Stop
    \/ RunSecond

SpecControl == InitControl /\ [][NextControl]_vars

\* self._run_cycle() returns to run(): the steps of SpecControl that are
\* RunCycle steps, told by where they leave the thread (a cycle makes
\* finitely many calls and its one wait, proc.wait(timeout=3), is bounded)
CycleReturns ==
    /\ pc = "cycle"
    /\ pc' = IF once THEN "idle" ELSE "wait"
    /\ ended_by' = IF once THEN "once" ELSE ended_by

\* the thread in run() is scheduled again and again, its cycle returns and
\* its wait on the stop event returns (when the event is set or the
\* interval has passed)
LoopThread ==
    \/ LoopEnter
    \/ CycleReturns
    \/ WaitReturn
    \/ LoopExit

SpecControlFair == SpecControl /\ WF_pc(LoopThread)

(***************************************************************************)
(* SpecOverrides: the daemon with a control thread (the tray) that pins    *)
(* and clears the mode and the profile and asks for the status, at any     *)
(* point of the loop; no call of the agent fails.                          *)
(***************************************************************************)
OverrideImages ==
    {i \in Images : normalize_process_name(i.name) \in {n_g1, n_xmr}}

InitOverrides ==
    /\ Constructed
    /\ counters = {}
    /\ config \in {AppConfig("balanced", 1)}
    /\ dry_run \in BOOLEAN
    /\ once = FALSE
    /\ learning = TRUE
    /\ world = [max_pid |-> MaxPid, images |-> OverrideImages,
                daemon_cpu |-> {hog_cpu_percent - 1}, observers |-> {}]
    /\ fault_count = MaxFaults
    /\ Unobserved

NextOverrides ==
    \/ Run
    \/ LoopEnter
    \/ RunCycle
    \/ WaitReturn
    \/ SetModeOverride
    \/ SetProfileOverride
    \/ Status

SpecOverrides == InitOverrides /\ [][NextOverrides]_vars

(***************************************************************************)
(* SpecPure: the Context Engine and the Classifier called on their own, as *)
(* the unit tests call them, over the configurations load_config can       *)
(* produce from a few name lists.                                          *)
(***************************************************************************)
PureConfigs ==
    {[AppConfig("safe", 1) EXCEPT
         !.game_processes = games,
         !.streaming_processes = streaming,
         !.suspicious.authorized_recorders = authorized,
         !.suspicious.recorder_indicators = indicators] :
       games \in {<<n_g1, n_g2>>, <<n_g2, n_g1>>, <<>>},
       streaming \in {<<n_obs>>, <<>>},
       authorized \in {<<n_obs>>, <<n_obsx>>, <<>>},
       indicators \in {<<n_obs>>, << <<"b", "s", "x">>, <<"r", "e", "c">> >>}}

DetectNames == {n_g1, n_g2, n_obs, n_key}

ClassifyNames ==
    {<<"o", "b", "s">>, <<" ", "o", "b", " ", "S", "x">>, <<"x", "o", "b", "s">>,
     <<"K", "e", "y">>, <<"X", "m", "r">>, <<"g", "1">>}

ClassifyCmdlines ==
    {<<>>, <<"o", "b", "s">>, <<" ", "-", "K", "e", "y", " ">>, <<"r", "e", "c", " ", "x",
     "m">>, <<"K", "e", "y", " ", "X", "M">>}

InitPure ==
    /\ Constructed
    /\ counters = {}
    /\ config \in PureConfigs
    /\ dry_run = TRUE
    /\ once = FALSE
    /\ learning = FALSE
    /\ world = [max_pid |-> OwnPid, images |-> {}, daemon_cpu |-> {hog_cpu_percent - 1},
                observers |-> {}]
    /\ fault_count = 0
    /\ Unobserved

\* ContextEngine(config).detect(running_names, foreground_process)
Detect ==
    /\ \E running_names \in SUBSET DetectNames :
       \E foreground_process \in {None, <<>>} \cup DetectNames :
          call' = [op |-> "detect", running_names |-> running_names,
                   foreground_process |-> foreground_process,
                   result |-> detect(config, running_names, foreground_process)]
    /\ UNCHANGED <<caller, cycles, fault_count, settings, engine, state_lock, agent_maps, mode_override,
                   profile_override, cycle_record, is_running, stop_event, pc, ended_by>>

\* ProcessClassifier(config).classify(name, cmdline)
Classify ==
    /\ \E name \in ClassifyNames :
       \E cmdline \in ClassifyCmdlines :
          call' = [op |-> "classify", name |-> name, cmdline |-> cmdline,
                   result |-> classify(config, name, cmdline)]
    /\ UNCHANGED <<caller, cycles, fault_count, settings, engine, state_lock, agent_maps, mode_override,
                   profile_override, cycle_record, is_running, stop_event, pc, ended_by>>

TargetLists ==
    {<<>>, <<ACTIVE_GAME>>, <<ACTIVE_GAME, n_obsx>>, <<n_key, ACTIVE_GAME, n_sys>>,
     <<ACTIVE_GAME, n_key, ACTIVE_GAME>>, <<n_key, n_sys>>, <<n_g1, ACTIVE_GAME>>}

\* OptimizerAgent._resolve_targets(targets, context), for the contexts
\* detect() returns
ResolveTargets ==
    /\ \E targets \in TargetLists :
       \E running_names \in {{}, {n_g1}, {n_g2, n_obs}} :
          call' = [op |-> "_resolve_targets", targets |-> targets,
                   context |-> detect(config, running_names, None),
                   result |-> _resolve_targets(targets,
                                               detect(config, running_names, None))]
    /\ UNCHANGED <<caller, cycles, fault_count, settings, engine, state_lock, agent_maps,
                   mode_override, profile_override, cycle_record, is_running, stop_event,
                   pc, ended_by>>

NextPure ==
    \/ Detect
    \/ Classify
    \/ ResolveTargets

SpecPure == InitPure /\ [][NextPure]_vars

(***************************************************************************)
(* SpecSuggest: a LearningEngine as the unit tests drive it, after the     *)
(* observe_* calls that left `counters`, at the derivation of the          *)
(* suggestions that save_now() writes.  Left out of `counters`:            *)
(* _process_seen and the _profile_seen of the default profile, which no    *)
(* suggestion reads.                                                       *)
(***************************************************************************)
MaxEntries == 3

FreeNames == {n_key, n_obsx}

CounterEntries ==
    {Entry("hog", name, count) :
        name \in FreeNames \cup {n_sys, n_obs}, count \in {1, 2, 4}}
    \cup {Entry("profile", <<profile, name>>, count) :
            profile \in {p_gaming, p_streaming}, name \in FreeNames, count \in {1, 2}}
    \cup {Entry("suspicion", <<name, "unauthorized_recorder">>, count) :
            name \in FreeNames \cup {n_sys, n_obs}, count \in {2, 4}}
    \cup {Entry("suspicion", <<n_key, "unauthorized_recorder">>, 1),
          Entry("suspicion", <<n_key, "possible_keylogger">>, 4)}
    \cup {Entry("foreground", <<profile, name>>, count) :
            profile \in {p_gaming, p_streaming}, name \in FreeNames, count \in {1, 2, 4}}
    \cup {Entry("foreground", <<profile, name>>, 4) :
            profile \in {p_gaming, p_streaming}, name \in {n_sys, n_g1, n_obs}}
    \cup {Entry("foreground", <<p_default, n_key>>, 4)}

\* a dict holds a key once
OneCountPerKey(cs) ==
    \A a, b \in cs : a.counter = b.counter /\ a.key = b.key => a = b

CounterSets ==
    {cs \in {Range(f) : f \in [1..MaxEntries -> CounterEntries]} : OneCountPerKey(cs)}

\* the orders the keys of `cs` can have been inserted in
Orders(cs) ==
    {order \in [1..Cardinality(cs) -> cs] : Range(order) = cs}

InitSuggest ==
    /\ Constructed
    /\ counters \in CounterSets
    /\ config = AppConfig("safe", 1)
    /\ dry_run = TRUE
    /\ once = FALSE
    /\ learning = TRUE
    /\ world = [max_pid |-> OwnPid, images |-> {}, daemon_cpu |-> {hog_cpu_percent - 1},
                observers |-> {}]
    /\ fault_count = 0
    /\ Unobserved

\* LearningEngine._build_suggestions(config)
BuildSuggestions ==
    /\ \E order \in Orders(counters) :
          call' = [op |-> "_build_suggestions",
                   result |-> _build_suggestions(config, counters, order)]
    /\ UNCHANGED <<caller, cycles, fault_count, settings, engine, state_lock, agent_maps,
                   mode_override, profile_override, cycle_record, is_running, stop_event,
                   pc, ended_by>>

NextSuggest == BuildSuggestions

SpecSuggest == InitSuggest /\ [][NextSuggest]_vars

(***************************************************************************)
(* SpecLearning: the daemon as the tray starts it (AgentController.start), *)
(* learning enabled, on a machine that runs nothing but the daemon: the    *)
(* loop thread with its autosave and its final save, and a control thread  *)
(* that stops the agent and forces saves ("Save learning snapshot").       *)
(***************************************************************************)
InitLearning ==
    /\ Constructed
    /\ counters = {}
    /\ config = AppConfig("balanced", 1)
    /\ dry_run = TRUE
    /\ once = FALSE
    /\ learning = TRUE
    /\ world = [max_pid |-> OwnPid, images |-> {}, daemon_cpu |-> {hog_cpu_percent - 1},
                observers |-> {"disk", "counters"}]
    /\ fault_count = 0
    /\ Unobserved

NextLearning ==
    \/ Run
    \/ LoopEnter
    \/ RunCycle
    \/ WaitReturn
    \/ LoopExit
    \/ Stop
    \/ ForcedSaveBegin
    \/ ForcedSaveEnd

SpecLearning == InitLearning /\ [][NextLearning]_vars

(***************************************************************************)
(* SpecProfiles: the first cycle of the daemon, in each mode, on a machine  *)
(* where two of a game, a streaming process and two processes the default  *)
(* profile names run side by side, with a control thread that pins and     *)
(* clears the profile; no call of the agent fails.                         *)
(***************************************************************************)
ProfileImages ==
    {i \in Images : /\ normalize_process_name(i.name) \in {n_g1, n_obs, n_key, n_obsx}
                    /\ i.cmdline = <<>>}

InitProfiles ==
    /\ Constructed
    /\ counters = {}
    /\ config \in {AppConfig(m, MaxWindows) : m \in Modes}
    /\ dry_run = FALSE
    /\ once = FALSE
    /\ learning = TRUE
    /\ world = [max_pid |-> MaxPid + 1, images |-> ProfileImages,
                daemon_cpu |-> {hog_cpu_percent - 1}, observers |-> {}]
    /\ fault_count = MaxFaults
    /\ Unobserved

NextProfiles ==
    \/ Run
    \/ LoopEnter
    \/ RunCycle
    \/ SetProfileOverride

SpecProfiles == InitProfiles /\ [][NextProfiles]_vars

(***************************************************************************)
(* SpecLocks: the tray's agent on a machine that runs nothing but the      *)
(* daemon, with the control thread's status(), set_mode_override,          *)
(* set_profile_override and forced saves at any point of the loop, each    *)
(* call noted with where the loop thread was.                              *)
(***************************************************************************)
InitLocks ==
    /\ Constructed
    /\ counters = {}
    /\ config = AppConfig("balanced", 1)
    /\ dry_run = TRUE
    /\ once = FALSE
    /\ learning = TRUE
    /\ world = [max_pid |-> OwnPid, images |-> {}, daemon_cpu |-> {hog_cpu_percent - 1},
                observers |-> {"calls"}]
    /\ fault_count = MaxFaults
    /\ Unobserved

NextLocks ==
    \/ Run
    \/ LoopEnter
    \/ RunCycle
    \/ WaitReturn
    \/ SetModeOverride
    \/ SetProfileOverride
    \/ Status
    \/ ForcedSaveBegin
    \/ ForcedSaveEnd

SpecLocks == InitLocks /\ [][NextLocks]_vars

(***************************************************************************)
(* SpecFaults: the daemon enforcing for real on a machine whose OS calls   *)
(* can fail: a miner and a keylogger run next to the daemon, the calls on  *)
(* one of them fail in one cycle (see OsResult), and the daemon's own CPU  *)
(* reading can fail.  The fault of each cycle is noted in last_fault.  In  *)
(* balanced mode the miner is terminated and the keylogger set to idle.    *)
(***************************************************************************)
FaultImages ==
    {i \in Images : normalize_process_name(i.name) = n_xmr \/ i.cmdline # <<>>}

InitFaults ==
    /\ Constructed
    /\ counters = {}
    /\ config = AppConfig("balanced", 1)
    /\ dry_run = FALSE
    /\ once = FALSE
    /\ learning = FALSE
    /\ world = [max_pid |-> MaxPid + 1, images |-> FaultImages,
                daemon_cpu |-> {CpuDenied, hog_cpu_percent}, observers |-> {"faults"}]
    /\ fault_count = 0
    /\ Unobserved

SpecFaults == InitFaults /\ [][Next]_vars

(***************************************************************************)
(* SpecCounters: the tray's agent with learning enabled on a machine where *)
(* a game and up to two processes of one recorder-like name run: the       *)
(* cycles count them, the hog rule and the classifier report the recorder, *)
(* and the loop thread and a control thread save.  No call fails.  The     *)
(* first MaxCycles cycles of the loop are followed.                        *)
(***************************************************************************)
CounterImages ==
    {i \in Images : normalize_process_name(i.name) \in {n_g1, n_obsx}}

InitCounters ==
    /\ Constructed
    /\ counters = {}
    /\ config = AppConfig("balanced", 1)
    /\ dry_run = TRUE
    /\ once = FALSE
    /\ learning = TRUE
    /\ world = [max_pid |-> MaxPid + 1, images |-> CounterImages,
                daemon_cpu |-> {hog_cpu_percent - 1},
                observers |-> {"counters", "cycles"}]
    /\ fault_count = MaxFaults
    /\ Unobserved

LoopEnterBounded == cycles < MaxCycles /\ LoopEnter

NextCounters ==
    \/ Run
    \/ LoopEnterBounded
    \/ RunCycle
    \/ WaitReturn
    \/ ForcedSaveBegin
    \/ ForcedSaveEnd

SpecCounters == InitCounters /\ [][NextCounters]_vars

(***************************************************************************)
(* SpecStart: the agent as the tray's controller runs it: a worker thread  *)
(* is started with run() as its target, and the controller's stop() can    *)
(* call agent.stop() from the moment the thread is started.  The worker    *)
(* thread is scheduled again and again (SpecStartFair).                    *)
(***************************************************************************)
InitStart ==
    /\ Constructed
    /\ counters = {}
    /\ config = AppConfig("balanced", 1)
    /\ dry_run = FALSE
    /\ once = FALSE
    /\ learning = TRUE
    /\ world = [max_pid |-> MaxPid, images |-> ControlImages,
                daemon_cpu |-> CpuValues, observers |-> {"cycles"}]
    /\ fault_count = MaxFaults
    /\ Unobserved

NextStart ==
    \/ ThreadStart
    \/ Run
    \/ LoopEnter
    \/ RunCycle
    \/ WaitReturn
    \/ LoopExit
    \/ Stop

SpecStart == InitStart /\ [][NextStart]_vars

\* the started thread enters run() and goes through the loop
WorkerThread ==
    \/ pc = "start" /\ Run
    \/ LoopThread

SpecStartFair == SpecStart /\ WF_pc(WorkerThread)

(***************************************************************************)
(* SpecEnds: every way a run() call can end, on a machine that runs        *)
(* nothing but the daemon: stop, run-once, an interrupt, a failing final   *)
(* save and a failure of the CPU priming.                                  *)
(***************************************************************************)
InitEnds ==
    /\ Constructed
    /\ counters = {}
    /\ config = AppConfig("balanced", 1)
    /\ dry_run = TRUE
    /\ once \in BOOLEAN
    /\ learning = TRUE
    /\ world = [max_pid |-> OwnPid, images |-> {}, daemon_cpu |-> {hog_cpu_percent - 1},
                observers |-> {"disk"}]
    /\ fault_count = 0
    /\ Unobserved

NextEnds ==
    \/ Run
    \/ RunPrimeFails
    \/ LoopEnter
    \/ RunCycle
    \/ WaitReturn
    \/ LoopExit
    \/ Interrupt
    \/ Stop

SpecEnds == InitEnds /\ [][NextEnds]_vars

(***************************************************************************)
(* SpecDeadlock: self._state_lock, a non-reentrant threading.Lock, under   *)
(* the calls of the loop thread and of a control thread.  A call is        *)
(* followed through its `with self._state_lock:` blocks only: what it has  *)
(* yet to do with the lock, in the order of its code.  A thread that       *)
(* requests the lock waits until the lock is free.                         *)
(***************************************************************************)
\* `with self._state_lock:` at `line` around a body that makes the lock
\* operations `inner`
Block(line, inner) ==
    <<[do |-> "acquire", line |-> line]>> \o inner \o <<[do |-> "release", line |-> line]>>

\* a status() that asks self._effective_mode() inside its block
StatusBody_Relocking == Block(203, <<>>)

\* the body of the block of status(): reads of the shared fields and
\* self._effective_mode_unlocked(), none of which takes the lock
StatusBody == <<>>

RECURSIVE Repeated(_, _)
Repeated(n, script) == IF n = 0 THEN <<>> ELSE script \o Repeated(n - 1, script)

\* the most findings one cycle is followed with
MaxFindings == 2

\* the lock operations of a call, in the order of its code.  run(): the
\* running guard, _effective_mode() for the start-up log line, one cycle
\* (_apply_profile_override, the store of the latest context, and
\* _effective_mode() in _apply_profile_actions, in _handle_resource_hogs and
\* in _take_suspicion_action for each of `findings` findings), and the
\* `finally`; a run() that finds the agent running returns inside its block
LockScript(op, findings) ==
    IF op = "run"
    THEN Block(71, <<>>) \o Block(203, <<>>)
         \o Block(189, <<>>) \o Block(167, <<>>)
         \o Block(203, <<>>) \o Block(203, <<>>)
         \o Repeated(findings, Block(203, <<>>))
         \o Block(104, <<>>)
    ELSE IF op = "run_again" THEN Block(71, <<>>)
    ELSE IF op = "status" THEN Block(133, StatusBody)
    ELSE IF op = "set_mode_override" THEN Block(111, <<>>)
    ELSE IF op = "set_profile_override" THEN Block(124, <<>>)
    ELSE <<>>

\* the calls a thread makes: the loop thread is the one in run(), the
\* control thread the tray's
CallsOf(t) ==
    IF t = "loop" THEN {"run"}
    ELSE {"run_again", "stop", "status", "set_mode_override", "set_profile_override",
          "save_learning_snapshot"}

InitDeadlock ==
    /\ Constructed
    /\ counters = {}
    /\ config = AppConfig("balanced", 1)
    /\ dry_run = TRUE
    /\ once = TRUE
    /\ learning = TRUE
    /\ world = [max_pid |-> OwnPid, images |-> {}, daemon_cpu |-> {hog_cpu_percent - 1},
                observers |-> {}]
    /\ fault_count = MaxFaults
    /\ Unobserved

\* everything but the lock and the positions of the threads in their calls
beside_lock ==
    <<config, dry_run, once, learning, world, hog_windows, priority_cache, seen_suspicion,
      mode_override, profile_override, latest_context, detected, caller, call,
      is_running, stop_event, pc, processes, log, abort_at, cycle_mode, ended_by,
      fault_count, streak, hot_cycles, consec, warned, unreconciled, cycles, counters,
      disk, saving, saved, last_fault>>

\* a thread enters a call (the control thread only after it has started
\* the loop thread)
Call ==
    /\ \E t \in Threads :
       \E op \in CallsOf(t) :
       \E findings \in 0..MaxFindings :
          /\ lock_script[t].todo = <<>>
          /\ lock_script[t].op # op
          /\ t = "control" => lock_script["loop"].op = "run"
          /\ lock_script' = [lock_script EXCEPT
                                ![t] = [op |-> op, todo |-> LockScript(op, findings)]]
    /\ UNCHANGED <<state_lock, beside_lock>>

\* Lock.acquire(): returns once the lock is free, and then the caller holds it
Acquire ==
    /\ \E t \in Threads :
          /\ lock_script[t].todo # <<>>
          /\ Head(lock_script[t].todo).do = "acquire"
          /\ state_lock = "free"
          /\ state_lock' = t
          /\ lock_script' = [lock_script EXCEPT ![t].todo = Tail(@)]
    /\ UNCHANGED beside_lock

\* Lock.release() at the end of the `with` block
Release ==
    /\ \E t \in Threads :
          /\ lock_script[t].todo # <<>>
          /\ Head(lock_script[t].todo).do = "release"
          /\ state_lock = t
          /\ state_lock' = "free"
          /\ lock_script' = [lock_script EXCEPT ![t].todo = Tail(@)]
    /\ UNCHANGED beside_lock

NextDeadlock ==
    \/ Call
    \/ Acquire
    \/ Release

SpecDeadlock == InitDeadlock /\ [][NextDeadlock]_vars

(***************************************************************************)
(* SpecMidCycle: one cycle followed through its reads of the effective     *)
(* mode, with set_mode_override calls of the control thread between them.  *)
(* _apply_profile_actions asks self._effective_mode() once, before its     *)
(* loops (line 248), _handle_resource_hogs once, before its loop (line     *)
(* 276), _take_suspicion_action at each finding (line 346).  The loop      *)
(* thread is then                                                          *)
(*   pc = "profile"     past line 248, before the loops of the profile     *)
(*   pc = "hogs"        past line 276, before the loop over the processes  *)
(*   pc = "suspicious"  at _handle_suspicious                              *)
(* and cycle_mode is the mode it read last.  No call of the cycle fails.   *)
(***************************************************************************)
MidCycleImages ==
    {i \in Images : normalize_process_name(i.name) \in {n_xmr, n_sys}}

InitMidCycle ==
    /\ Constructed
    /\ counters = {}
    /\ config \in {AppConfig(m, 1) : m \in {"balanced", "aggressive"}}
    /\ dry_run = FALSE
    /\ once = FALSE
    /\ learning = FALSE
    /\ world = [max_pid |-> MaxPid + 1, images |-> MidCycleImages,
                daemon_cpu |-> {hog_cpu_percent - 1}, observers |-> {}]
    /\ fault_count = MaxFaults
    /\ Unobserved

\* the state the handlers of the cycle in progress work on
InProgress ==
    [hog_windows |-> hog_windows, priority_cache |-> priority_cache,
     seen_suspicion |-> seen_suspicion, log |-> log, raised |-> FALSE,
     phase |-> pc]

\* the environment of a handler that enforces for `mode`
EnvWith(mode) ==
    [config |-> config, dry_run |-> dry_run, learning |-> learning, mode |-> mode,
     fault |-> NoFault]

\* what a part of the cycle leaves alone
beside_cycle ==
    <<caller, call, cycles, fault_count, settings, engine, mode_override,
      profile_override, is_running, stop_event, ended_by, streak, hot_cycles, consec,
      warned, unreconciled, last_fault, abort_at, state_lock>>

\* _run_cycle up to the first statement of _apply_profile_actions past its
\* read of the mode
CycleBegin ==
    /\ pc = "cycle"
    /\ state_lock = "free"
    /\ \E procs \in Snapshots :
       \E foreground \in Foregrounds(procs) :
          /\ processes' = procs
          /\ detected' = detect(config, RunningNames(procs), foreground)
          /\ latest_context' = _apply_profile_override(detected', profile_override)
    /\ log' = <<>>
    /\ cycle_mode' = _effective_mode_unlocked(mode_override, config)
    /\ pc' = "profile"
    /\ UNCHANGED <<agent_maps, beside_cycle>>

\* the loops of _apply_profile_actions, under the mode read before them,
\* then _handle_resource_hogs up to its read of the mode
CycleProfile ==
    /\ pc = "profile"
    /\ state_lock = "free"
    /\ LET st == _apply_profile_actions(InProgress, processes, latest_context,
                                        EnvWith(cycle_mode))
       IN  /\ hog_windows' = st.hog_windows
           /\ priority_cache' = st.priority_cache
           /\ seen_suspicion' = st.seen_suspicion
           /\ log' = st.log
    /\ cycle_mode' = _effective_mode_unlocked(mode_override, config)
    /\ pc' = "hogs"
    /\ UNCHANGED <<processes, detected, latest_context, beside_cycle>>

\* the loop of _handle_resource_hogs, under the mode read before it
CycleHogs ==
    /\ pc = "hogs"
    /\ LET st == _handle_resource_hogs(InProgress, processes, latest_context,
                                       EnvWith(cycle_mode))
       IN  /\ hog_windows' = st.hog_windows
           /\ priority_cache' = st.priority_cache
           /\ seen_suspicion' = st.seen_suspicion
           /\ log' = st.log
    /\ pc' = "suspicious"
    /\ UNCHANGED <<processes, detected, latest_context, cycle_mode, beside_cycle>>

\* _handle_suspicious, each finding under the mode of the moment, then
\* _cleanup_state and the return to run()
CycleSuspicious ==
    /\ pc = "suspicious"
    /\ state_lock = "free"
    /\ cycle_mode' = _effective_mode_unlocked(mode_override, config)
    /\ LET st == _cleanup_state(_handle_suspicious(InProgress, processes,
                                                   EnvWith(cycle_mode')),
                                processes)
       IN  /\ hog_windows' = st.hog_windows
           /\ priority_cache' = st.priority_cache
           /\ seen_suspicion' = st.seen_suspicion
           /\ log' = st.log
    /\ pc' = "wait"
    /\ UNCHANGED <<processes, detected, latest_context, beside_cycle>>

NextMidCycle ==
    \/ Run
    \/ LoopEnter
    \/ CycleBegin
    \/ CycleProfile
    \/ CycleHogs
    \/ CycleSuspicious
    \/ WaitReturn
    \/ SetModeOverride

SpecMidCycle == InitMidCycle /\ [][NextMidCycle]_vars

(***************************************************************************)
(* The claims.  Each is a statement about the trace of the last cycle      *)
(* (log), the snapshot it ran on (processes), the mode it enforced         *)
(* (cycle_mode) and the agent's maps after it.                             *)
(***************************************************************************)
MutationEvents ==
    {"os_set_priority", "os_terminate", "os_kill", "dry_set_priority", "dry_terminate"}

TerminationEvents == {"call_terminate", "os_terminate", "os_kill", "dry_terminate"}

PriorityEvents == {"call_set_priority", "os_set_priority", "dry_set_priority"}

PolicyReasons == {<<k>> : k \in Kinds} \cup {<<"resource hog">>}

Logged(ev, pid, level, reason) ==
    \E i \in DOMAIN log :
        /\ log[i].ev = ev
        /\ log[i].pid = pid
        /\ log[i].level = level
        /\ log[i].reason = reason

\* C1: no priority change and no terminate/kill request is issued, or
\* dry-run-logged, for a process whose normalised name is protected or
\* whose pid is the daemon's own, whatever rule asked for it.
C1_ProtectedAndSelfNeverMutated ==
    \A i \in DOMAIN log :
        log[i].ev \in MutationEvents =>
            /\ log[i].pid # OwnPid
            /\ log[i].name \notin Range(config.protected_processes)

\* a cycle in which the profile asked to close a protected process and to
\* throttle the daemon's own process, with the OS at hand (no dry run)
C1_Witness ==
    /\ ~dry_run
    /\ ~raised
    /\ \E i \in DOMAIN log :
          /\ log[i].ev = "call_terminate"
          /\ log[i].name \in Range(config.protected_processes)
    /\ \E i \in DOMAIN log :
          /\ log[i].ev = "call_set_priority"
          /\ log[i].pid = OwnPid

\* C2: in a cycle that enforces mode safe nothing is terminated: a close
\* target gets the "would close" line, a fired hog the "keeping process"
\* line, and a finding neither a priority change nor a termination.
C2_SafeModeNeverTerminates ==
    cycle_mode = "safe" =>
        \A i \in DOMAIN log :
            /\ log[i].ev \notin TerminationEvents
            /\ log[i].ev \in PriorityEvents => log[i].reason \notin PolicyReasons
            /\ log[i].ev = "close_target" =>
                  Logged("would_close", log[i].pid, NoLevel, log[i].reason)
            /\ log[i].ev = "hog_warning" =>
                  Logged("keep_safe", log[i].pid, NoLevel, <<"resource hog">>)
            /\ log[i].ev = "finding" =>
                  Logged("no_enforcement", log[i].pid, NoLevel, log[i].reason)

\* a safe cycle over a process that is a close target, a fired hog and a
\* suspect at once
C2_Witness ==
    /\ cycle_mode = "safe"
    /\ \E i, j, k \in DOMAIN log :
          /\ log[i].ev = "would_close"
          /\ log[j].ev = "keep_safe" /\ log[j].pid = log[i].pid
          /\ log[k].ev = "no_enforcement" /\ log[k].pid = log[i].pid

\* C3: in a balanced cycle a possible_miner finding terminates the process
\* iff its name is on the always-terminate list and otherwise sets it to
\* idle; unauthorized_recorder sets below_normal, possible_keylogger and a
\* fired hog set idle, and these three never terminate.
C3_BalancedPolicy ==
    cycle_mode = "balanced" =>
        \A i \in DOMAIN log :
            LET e == log[i]
                always == e.name \in Range(config.suspicious.always_terminate_names)
                terminates == Logged("call_terminate", e.pid, NoLevel, e.reason)
                sets(level) == Logged("call_set_priority", e.pid, level, e.reason)
                sets_any == \E l \in Levels : sets(l)
            IN  /\ e.ev = "finding" /\ e.reason = <<"possible_miner">> =>
                      /\ terminates <=> always
                      /\ sets("idle") <=> ~always
                      /\ sets_any => ~always
                /\ e.ev = "finding" /\ e.reason = <<"unauthorized_recorder">> =>
                      sets("below_normal") /\ ~terminates
                /\ e.ev = "finding" /\ e.reason = <<"possible_keylogger">> =>
                      sets("idle") /\ ~terminates
                /\ e.ev = "hog_warning" => sets("idle") /\ ~terminates
                /\ e.ev = "call_set_priority" /\ e.reason \in PolicyReasons =>
                      e.level = IF e.reason = <<"unauthorized_recorder">>
                                THEN "below_normal" ELSE "idle"

\* a balanced cycle that really terminates a miner on the always-terminate
\* list
C3_Witness ==
    /\ cycle_mode = "balanced"
    /\ \E i \in DOMAIN log :
          /\ log[i].ev = "os_terminate"
          /\ log[i].reason = <<"possible_miner">>
          /\ log[i].name \in Range(config.suspicious.always_terminate_names)

\* the processes of the snapshot that the cycle's profile lists to close
CloseMatches ==
    IF latest_context.profile_name \notin DOMAIN config.profiles THEN <<>>
    ELSE TargetProcs(_resolve_targets(config.profiles[latest_context.profile_name].close,
                                      latest_context),
                     processes)

\* the close loop of the profile ran to its end
ProfileDone(at) == at \notin {"snapshot", "foreground", "observe", "profile"}

\* C4: in an aggressive cycle every finding, every fired hog and every
\* close target the profile's close loop comes to gets a termination
\* request, and no rule of the policy table changes a priority; the close
\* loop, where it runs to its end, comes to every process of the snapshot
\* that the profile lists to close.
C4_AggressivePolicy ==
    cycle_mode = "aggressive" =>
        /\ \A i \in DOMAIN log :
              LET e == log[i]
              IN  /\ e.ev \in {"finding", "hog_warning", "close_target"} =>
                        Logged("call_terminate", e.pid, NoLevel, e.reason)
                  /\ e.ev \in PriorityEvents => e.reason \notin PolicyReasons
                  /\ e.ev # "would_close"
        /\ ProfileDone(abort_at) =>
              \A i \in DOMAIN CloseMatches :
                  Logged("close_target", CloseMatches[i].pid, NoLevel,
                         <<latest_context.profile_name, "close target">>)

\* an aggressive cycle that terminates one process three times over: as a
\* close target, as a fired hog and as a suspect
C4_Witness ==
    /\ cycle_mode = "aggressive"
    /\ ~raised
    /\ \E i, j, k \in DOMAIN log :
          /\ log[i].ev = "os_terminate" /\ log[i].reason[Len(log[i].reason)] = "close target"
          /\ log[j].ev = "os_terminate" /\ log[j].reason = <<"resource hog">>
          /\ log[k].ev = "os_terminate" /\ log[k].reason \in {<<kd>> : kd \in Kinds}

HogWarnings(pid) ==
    Cardinality({i \in DOMAIN log : log[i].ev = "hog_warning" /\ log[i].pid = pid})

\* the enforcement the cycle's mode has for a fired hog was asked for
HogEnforced(pid) ==
    IF cycle_mode = "safe" THEN Logged("keep_safe", pid, NoLevel, <<"resource hog">>)
    ELSE IF cycle_mode = "balanced"
         THEN Logged("call_set_priority", pid, "idle", <<"resource hog">>)
    ELSE Logged("call_terminate", pid, NoLevel, <<"resource hog">>)

HogCount(pid) == IF pid \in DOMAIN hog_windows THEN hog_windows[pid] ELSE 0

C6_HogCounterCountsConsecutive ==
    /\ HogScanDone(abort_at) =>
          \A i \in DOMAIN processes :
              ~HogSkipped(processes[i], latest_context) /\ ~Hot(processes[i]) =>
                  HogCount(processes[i].pid) = 0
    /\ \A i \in DOMAIN log :
          log[i].ev = "hog_warning" =>
              consec[log[i].pid] >= config.hog_observation_windows

PriorityEffects == {"os_set_priority", "dry_set_priority", "priority_failed"}

\* C7: a priority request for a pid whose cached priority already is the
\* one of the requested level has no effect, neither an OS call nor a log
\* line, in a dry run too; so after a request that set (or dry-run-logged)
\* a level for a pid, the next request of that level for the pid finds
\* it cached and does nothing.
C7_PriorityIdempotent ==
    /\ \A i \in DOMAIN log :
          /\ log[i].ev = "call_set_priority"
          /\ log[i].cached = _priority_for_level(log[i].level)
          => (i = Len(log) \/ log[i + 1].ev \notin PriorityEffects)
    /\ \A i, j \in DOMAIN log :
          /\ i < j
          /\ log[i].ev \in {"os_set_priority", "dry_set_priority"}
          /\ log[j].ev = "call_set_priority"
          /\ log[j].pid = log[i].pid
          /\ log[j].level = log[i].level
          /\ \A k \in (i + 1)..(j - 1) :
                log[k].pid = log[i].pid =>
                    log[k].ev \notin {"call_set_priority", "terminated"}
          => log[j].cached = _priority_for_level(log[i].level)
    /\ ~raised =>
          \A i \in DOMAIN log :
              /\ log[i].ev \in {"os_set_priority", "dry_set_priority"}
              /\ \A k \in (i + 1)..Len(log) :
                    log[k].pid = log[i].pid => log[k].ev \notin PriorityEffects \cup {"terminated"}
              => /\ log[i].pid \in DOMAIN priority_cache
                 /\ priority_cache[log[i].pid] = _priority_for_level(log[i].level)

\* one cycle asks twice for the same level of a pid: the first request sets
\* it, the second finds it cached and is the last word on that pid
C7_Witness ==
    \E i, j \in DOMAIN log :
        /\ i < j
        /\ log[i].ev \in {"os_set_priority", "dry_set_priority"}
        /\ log[j].ev = "call_set_priority"
        /\ log[j].pid = log[i].pid
        /\ log[j].level = log[i].level
        /\ log[j].cached = _priority_for_level(log[j].level)
        /\ (j = Len(log) \/ log[j + 1].ev \notin PriorityEffects)

\* the findings a suspicion scan has to deal with: those of the named,
\* unprotected processes of the snapshot
FindingKinds(proc) ==
    LET name == normalize_process_name(proc.name)
    IN  IF name = <<>> \/ _is_protected(config, name) THEN {}
        ELSE Range(classify(config, name, _format_cmdline(proc.cmdline)))

Findings ==
    UNION {{<<processes[n], kind>> : kind \in FindingKinds(processes[n])} :
              n \in DOMAIN processes}

\* the finding was reported to the Learning Engine and the enforcement of
\* the cycle's mode was asked for
FindingActedOn(proc, kind) ==
    /\ learning => Logged("observe_suspicion", proc.pid, NoLevel, <<kind>>)
    /\ IF cycle_mode = "safe"
       THEN Logged("no_enforcement", proc.pid, NoLevel, <<kind>>)
       ELSE \/ Logged("call_terminate", proc.pid, NoLevel, <<kind>>)
            \/ \E level \in Levels : Logged("call_set_priority", proc.pid, level, <<kind>>)

MapPids ==
    (DOMAIN hog_windows) \cup (DOMAIN priority_cache) \cup {k[1] : k \in seen_suspicion}

C10_FailingCycleNeverEndsLoop ==
    [][/\ pc = "cycle" /\ log' # log /\ abort_at' # "none" =>
             IF once THEN pc' = "idle" /\ ended_by' = "once"
             ELSE pc' = "wait" /\ is_running'
       /\ pc \in {"loop", "cycle", "wait"} /\ pc' = "idle" =>
             stop_event \/ once \/ ended_by' = "interrupt"
       /\ pc = "wait" /\ pc' # "wait" /\ ~stop_event /\ ended_by' # "interrupt" =>
             pc' = "loop" /\ is_running']_vars

\* the loop is back at its test, running, after a cycle that raised
C10_Witness ==
    /\ raised
    /\ pc = "loop"
    /\ is_running
    /\ ~once
    /\ ~stop_event

\* C11: once the stop event is set on a running agent the loop test starts
\* no further cycle, a cycle that is in progress runs through (all its
\* steps, unless an exception of its own cuts it short), the wait returns
\* into the end of run() and not into another iteration, and run() returns
\* as long as its thread is scheduled.
C11_StopIsCooperative ==
    /\ [][/\ stop_event /\ pc \in {"loop", "wait"} =>
                pc' \in {pc, "idle"} /\ cycles' = cycles /\ log' = log
          /\ stop_event /\ pc = "wait" /\ pc' # "wait" => ~is_running'
          /\ stop_event /\ pc = "cycle" /\ pc' # "cycle" /\ ended_by' # "interrupt" =>
                /\ cycles' = IF cycles >= MaxCycles THEN cycles ELSE cycles + 1
                /\ fault_count' = fault_count => abort_at' = "none"
                /\ pc' = IF once THEN "idle" ELSE "wait"]_vars
    /\ (stop_event /\ is_running) ~> (pc = "idle" /\ ~is_running)

\* run() has returned on a stop request that came while its second cycle
\* was in progress
C11_Witness ==
    /\ pc = "idle"
    /\ ended_by = "stop"
    /\ stop_event
    /\ cycles = 2
    /\ ~once


\* C12: a run() call that comes while another run() is in progress returns
\* at the running guard: it starts no loop of its own, runs no cycle and
\* leaves the running flag and the stop event as they are.
C12_SecondRunIsNoOp ==
    [][caller' # caller =>
          /\ caller' = "returned"
          /\ is_running' = is_running
          /\ stop_event' = stop_event
          /\ cycles' = cycles
          /\ log' = log
          /\ pc' = pc]_vars

\* the second call has returned while the loop thread is in a cycle, the
\* stop event set
C12_Witness ==
    /\ caller = "returned"
    /\ pc = "cycle"
    /\ is_running
    /\ stop_event


\* C13: a run() call of an agent in run-once mode never enters the
\* interval wait and never runs a second cycle, and when it returns it has
\* run one cycle, unless a stop request or an interrupt ended it before
\* the cycle.
C13_RunOnceRunsOneCycle ==
    once =>
        /\ pc # "wait"
        /\ cycles <= 1
        /\ pc = "idle" /\ ended_by \notin {"none", "stop", "interrupt"} => cycles = 1
        /\ pc = "idle" /\ cycles = 1 => ended_by = "once"
        /\ pc \in {"loop", "cycle"} => cycles = 0

\* a run-once call has returned after its one cycle, which raised
C13_Witness ==
    /\ once
    /\ pc = "idle"
    /\ ended_by = "once"
    /\ cycles = 1
    /\ raised


\* C14: set_profile_override raises exactly for a value that is non-empty
\* after normalisation and no configured profile name, and then leaves the
\* stored override as it is; otherwise it stores the normalised name, or
\* none for an empty or none value.  Nothing else changes the stored
\* override, which is always none or a key of the configured profiles.
C14_ProfileOverrideValidated ==
    [][/\ call' # call /\ call'.op = "set_profile_override" =>
             LET n == normalize_process_name(call'.profile)
             IN  /\ call'.raised <=> (n # <<>> /\ n \notin DOMAIN config.profiles)
                 /\ call'.raised => profile_override' = profile_override
                 /\ ~call'.raised =>
                       profile_override' = IF n = <<>> THEN None ELSE n
       /\ call' = call \/ call'.op # "set_profile_override" =>
             profile_override' = profile_override
       /\ profile_override' \in {None} \cup DOMAIN config.profiles]_vars

\* an unknown profile was rejected while gaming was pinned, and the cycles
\* go on under the pinned profile
C14_Witness ==
    /\ call.op = "set_profile_override"
    /\ call.raised
    /\ profile_override = p_gaming
    /\ latest_context.profile_name = p_gaming
    /\ pc = "wait"


\* C15: the context a cycle works with (and publishes) is the detected
\* context with the pinned profile as its profile name, active game,
\* streaming flag and foreground as detected; it is the detected context
\* itself when no profile is pinned.  The profile actions of the cycle
\* carry that profile name.
C15_OverrideReplacesProfileOnly ==
    [][pc = "cycle" /\ pc' # "cycle" =>
          /\ latest_context'.active_game = detected'.active_game
          /\ latest_context'.streaming_active = detected'.streaming_active
          /\ latest_context'.foreground_process = detected'.foreground_process
          /\ latest_context'.profile_name =
                IF profile_override = None THEN detected'.profile_name
                ELSE profile_override
          /\ \A i \in DOMAIN log' :
                Len(log'[i].reason) = 2 =>
                    log'[i].reason[1] = latest_context'.profile_name]_vars

\* a cycle detected gaming with an active game in the foreground while
\* profile default was pinned, and ran the throttle list of default
C15_Witness ==
    /\ profile_override = p_default
    /\ detected.profile_name = p_gaming
    /\ detected.foreground_process = n_g1
    /\ latest_context.profile_name = p_default
    /\ latest_context.active_game = n_g1
    /\ \E i \in DOMAIN log : log[i].reason = <<p_default, "throttle">>


\* the mode the claim calls effective
EffectiveMode == IF mode_override # "none" THEN mode_override ELSE config.mode

\* C16: a cycle enforces, and status() reports, the mode override when one
\* is set and the configured mode otherwise; set_mode_override stores its
\* argument, so that clearing it brings the configured mode back; no step
\* (cycle, override call, status) changes the configuration.
C16_EffectiveMode ==
    [][/\ config' = config
       /\ pc = "cycle" /\ pc' # "cycle" =>
             /\ cycle_mode' = EffectiveMode
             /\ \A i \in DOMAIN log' :
                   /\ EffectiveMode = "safe" => log'[i].ev \notin TerminationEvents
                   /\ EffectiveMode = "balanced" /\ log'[i].ev = "hog_warning" =>
                         \E j \in DOMAIN log' :
                            /\ log'[j].ev = "call_set_priority"
                            /\ log'[j].pid = log'[i].pid
                            /\ log'[j].reason = <<"resource hog">>
                   /\ EffectiveMode = "aggressive" /\ log'[i].ev \in {"hog_warning", "finding"} =>
                         \E j \in DOMAIN log' :
                            /\ log'[j].ev = "call_terminate"
                            /\ log'[j].pid = log'[i].pid
                            /\ log'[j].reason = log'[i].reason
       /\ call' # call /\ call'.op = "status" =>
             /\ call'.effective_mode = EffectiveMode
             /\ call'.profile_override = profile_override
       /\ call' # call /\ call'.op = "set_mode_override" =>
             /\ mode_override' = call'.mode
             /\ call'.mode = "none" => EffectiveMode' = config.mode
       /\ call' = call \/ call'.op # "set_mode_override" =>
             mode_override' = mode_override]_vars

\* status() reports aggressive, pinned over the configured balanced, after
\* a cycle that terminated a process under it
C16_Witness ==
    /\ call.op = "status"
    /\ call.effective_mode = "aggressive"
    /\ config.mode = "balanced"
    /\ cycle_mode = "aggressive"
    /\ \E i \in DOMAIN log : log[i].ev = "os_terminate"


OsCalls ==
    {"os_set_priority", "os_terminate", "os_kill", "priority_failed", "terminate_failed",
     "terminated", "killed", "kill_failed"}

\* C17: in a dry run no cycle, whatever the mode and the profile pinned,
\* makes a priority-set, terminate or kill call: a priority request that is
\* neither excluded nor cached gets the [dry-run] line and the cache
\* entry, a termination request that is not excluded the [dry-run] line.
C17_DryRunIssuesNoOsCall ==
    dry_run =>
        \A i \in DOMAIN log :
            LET e == log[i]
                excluded == e.name = <<>> \/ _is_protected(config, e.name) \/ e.pid = OwnPid
            IN  /\ e.ev \notin OsCalls
                /\ e.ev = "call_terminate" /\ ~excluded =>
                      /\ i < Len(log)
                      /\ log[i + 1] = [e EXCEPT !.ev = "dry_terminate"]
                /\ e.ev = "call_set_priority" /\ ~excluded
                   /\ e.cached # _priority_for_level(e.level) =>
                      /\ i < Len(log)
                      /\ log[i + 1] = [e EXCEPT !.ev = "dry_set_priority", !.cached = 0]

\* a dry run under a pinned aggressive mode: the termination of a miner
\* was logged once as a close target and once as a finding, none made
C17_Witness ==
    /\ dry_run
    /\ cycle_mode = "aggressive"
    /\ mode_override = "aggressive"
    /\ \E i, j \in DOMAIN log :
          /\ log[i].ev = "dry_terminate" /\ log[i].reason = <<p_default, "close target">>
          /\ log[j].ev = "dry_terminate" /\ log[j].reason = <<"possible_miner">>


\* the configured names of the list that are in the set
Present(list, names) == {i \in DOMAIN list : list[i] \in names}

\* what detect says of the profile and the streaming flag, given its inputs
\* and the active game it found
DetectSelects(c) ==
    /\ c.result.streaming_active <=>
          Present(config.streaming_processes, c.running_names) # {}
    /\ c.result.profile_name =
          IF c.result.streaming_active /\ c.result.active_game # None THEN p_streaming
          ELSE IF c.result.active_game # None THEN p_gaming
          ELSE p_default
    /\ c.result.foreground_process = c.foreground_process

\* C18, as stated: the profile is streaming with a streaming process in the
\* running-name set and an active game, gaming with an active game alone,
\* default otherwise; the streaming flag is set iff a configured streaming
\* name is in the running-name set; and with no configured game in the
\* running-name set the result is profile default and no active game.
C18_ProfileFromFacts ==
    call.op = "detect" =>
        /\ DetectSelects(call)
        /\ Present(config.game_processes, call.running_names) = {} =>
              /\ call.result.profile_name = p_default
              /\ call.result.active_game = None

\* C18, amended: the same, the last part for a foreground process that is
\* no configured game.
C18_ProfileFromFactsAndForeground ==
    call.op = "detect" =>
        /\ DetectSelects(call)
        /\ /\ Present(config.game_processes, call.running_names) = {}
           /\ call.foreground_process \notin Range(config.game_processes)
           => /\ call.result.profile_name = p_default
              /\ call.result.active_game = None

\* detect found streaming: the second game of the list in the foreground,
\* a streaming process and the first game running
C18_Witness ==
    /\ call.op = "detect"
    /\ call.result.profile_name = p_streaming
    /\ call.foreground_process = n_g1
    /\ call.running_names = {n_g1, n_g2, n_obs}
    /\ config.game_processes = <<n_g2, n_g1>>

\* C19: a foreground process that is a configured game is the active game,
\* whatever runs; otherwise the active game is the configured game of the
\* lowest list position among those in the running-name set, and none when
\* no configured game is in it.
C19_ActiveGameResolution ==
    call.op = "detect" =>
        LET games == config.game_processes
            hits == Present(games, call.running_names)
        IN  IF call.foreground_process \in Range(games)
            THEN call.result.active_game = call.foreground_process
            ELSE IF hits = {} THEN call.result.active_game = None
            ELSE /\ call.result.active_game \in {games[i] : i \in hits}
                 /\ \A i \in hits :
                       \A j \in hits :
                           games[j] = call.result.active_game => j <= i

\* the foreground game wins over the game that is first in the list and
\* running, the foreground game itself not in the running-name set
C19_Witness ==
    /\ call.op = "detect"
    /\ config.game_processes = <<n_g1, n_g2>>
    /\ call.running_names = {n_g1, n_key}
    /\ call.foreground_process = n_g2
    /\ call.result.active_game = n_g2

\* `ind` occurs in `s` as a substring
Contains(s, ind) ==
    \E i \in 1..(Len(s) + 1) :
        \E j \in 0..Len(s) : SubSeq(s, i, j) = ind

\* C20: classify returns unauthorized_recorder iff the normalised name
\* contains a configured recorder indicator and is not in the authorized
\* list, whatever the command line; a name of the authorized list is never
\* flagged.
C20_UnauthorizedRecorder ==
    call.op = "classify" =>
        LET name == normalize_process_name(call.name)
            matches == \E k \in DOMAIN config.suspicious.recorder_indicators :
                           Contains(name, config.suspicious.recorder_indicators[k])
            authorized == name \in Range(config.suspicious.authorized_recorders)
        IN  /\ "unauthorized_recorder" \in Range(call.result) <=> matches /\ ~authorized
            /\ authorized => "unauthorized_recorder" \notin Range(call.result)

\* an authorized recorder, matching an indicator, is not flagged
C20_Witness ==
    /\ call.op = "classify"
    /\ normalize_process_name(call.name) = n_obsx
    /\ n_obsx \in Range(config.suspicious.authorized_recorders)
    /\ <<"b", "s", "x">> \in Range(config.suspicious.recorder_indicators)
    /\ call.cmdline = <<"o", "b", "s">>
    /\ "unauthorized_recorder" \notin Range(call.result)


\* the findings of one kind: some indicator of the list occurs in the
\* normalised name or in the lowercased command line
IndicatorHit(indicators, c) ==
    \E k \in DOMAIN indicators :
        \/ Contains(normalize_process_name(c.name), indicators[k])
        \/ Contains(LowerSeq(c.cmdline), indicators[k])

\* C21: classify returns possible_keylogger iff a keylogger indicator
\* occurs in the normalised name or in the lowercased command line, and
\* possible_miner likewise; each kind is returned whenever it applies,
\* whatever else was found, once and in the order recorder, keylogger,
\* miner.
C21_FindingsIndependent ==
    call.op = "classify" =>
        LET recorder == _is_unauthorized_recorder(config, normalize_process_name(call.name))
            keylogger == IndicatorHit(config.suspicious.keylogger_indicators, call)
            miner == IndicatorHit(config.suspicious.miner_indicators, call)
        IN  /\ "possible_keylogger" \in Range(call.result) <=> keylogger
            /\ "possible_miner" \in Range(call.result) <=> miner
            /\ call.result = (IF recorder THEN <<"unauthorized_recorder">> ELSE <<>>)
                             \o (IF keylogger THEN <<"possible_keylogger">> ELSE <<>>)
                             \o (IF miner THEN <<"possible_miner">> ELSE <<>>)

\* all three kinds at once: a recorder by its name, keylogger and miner by
\* the capitals of its command line
C21_Witness ==
    /\ call.op = "classify"
    /\ call.name = <<"x", "o", "b", "s">>
    /\ call.cmdline = <<"K", "e", "y", " ", "X", "M">>
    /\ call.result = <<"unauthorized_recorder", "possible_keylogger", "possible_miner">>


\* C22: the suggestion list is the same in whatever order the counters'
\* keys were inserted; it is sorted by target ascending, then evidence count
\* descending, then value ascending; no two of its entries have the same
\* (target, value); and an entry carries the largest evidence count of the
\* candidates with its (target, value)
SameKey(a, b) == a.target = b.target /\ a.value = b.value

InOrder(a, b) ==
    \/ TargetRank(a.target) < TargetRank(b.target)
    \/ /\ a.target = b.target
       /\ \/ a.evidence_count > b.evidence_count
          \/ a.evidence_count = b.evidence_count /\ StrLess(a.value, b.value)

C22_SuggestionsDeterministicSorted ==
    call.op = "_build_suggestions" =>
        LET result == call.result
        IN  /\ \A order \in Orders(counters) :
                  /\ _build_suggestions(config, counters, order) = result
                  /\ LET candidates == Candidates(config, counters, order)
                     IN  \A i \in DOMAIN result : \A k \in DOMAIN candidates :
                             SameKey(result[i], candidates[k])
                                 => result[i].evidence_count >= candidates[k].evidence_count
            /\ \A i, j \in DOMAIN result : i < j => InOrder(result[i], result[j])
            /\ \A i, j \in DOMAIN result : SameKey(result[i], result[j]) => i = j

\* three suggestions, two of one target with different evidence, two of one
\* target with the same evidence, from counters of which some insertion
\* order yields the candidates in another order than the result's
C22_Witness ==
    /\ call.op = "_build_suggestions"
    /\ Len(call.result) = 3
    /\ call.result[1].target = call.result[2].target
    /\ call.result[1].evidence_count = call.result[2].evidence_count
    /\ call.result[2].target = call.result[3].target
    /\ call.result[2].evidence_count > call.result[3].evidence_count
    /\ \E order \in Orders(counters) : Candidates(config, counters, order) # call.result


\* C23: a name is suggested for resource_allowlist iff its hog-event count
\* is at least min_occurrences, it is neither protected nor in the resource
\* allowlist, and its gaming and streaming co-occurrence counts together are
\* at least min_occurrences; the evidence count is the hog-event count, the
\* confidence high from twice min_occurrences on and medium below
SuggestNames == FreeNames \cup {n_sys, n_g1, n_obs}

SuggestedFor(result, target, name) ==
    {i \in DOMAIN result : result[i].target = target /\ result[i].value = name}

C23_ResourceAllowlistSuggestion ==
    call.op = "_build_suggestions" =>
        \A name \in SuggestNames :
            LET hog_count == CountOf(counters, "hog", name)
                sessions == CountOf(counters, "profile", <<p_gaming, name>>)
                            + CountOf(counters, "profile", <<p_streaming, name>>)
                at == SuggestedFor(call.result, "resource_allowlist", name)
            IN  /\ at # {} <=> /\ hog_count >= min_occurrences
                               /\ name \notin Range(config.protected_processes)
                               /\ name \notin Range(config.resource_allowlist)
                               /\ sessions >= min_occurrences
                /\ \A i \in at :
                      /\ call.result[i].evidence_count = hog_count
                      /\ call.result[i].confidence
                             = IF hog_count >= 2 * min_occurrences THEN "high" ELSE "medium"

\* a medium suggestion whose sessions are one gaming and one streaming cycle
C23_Witness ==
    /\ call.op = "_build_suggestions"
    /\ \E i \in DOMAIN call.result :
          /\ call.result[i].target = "resource_allowlist"
          /\ call.result[i].confidence = "medium"
          /\ CountOf(counters, "profile", <<p_gaming, call.result[i].value>>) = 1
          /\ CountOf(counters, "profile", <<p_streaming, call.result[i].value>>) = 1

\* C24: a name is suggested for game_processes iff its foreground count
\* under the gaming profile is at least min_occurrences, it is not protected
\* and it is no configured game process; the confidence is high from twice
\* min_occurrences on and low below
C24_GameProcessSuggestion ==
    call.op = "_build_suggestions" =>
        \A name \in SuggestNames :
            LET count == CountOf(counters, "foreground", <<p_gaming, name>>)
                at == SuggestedFor(call.result, "game_processes", name)
            IN  /\ at # {} <=> /\ count >= min_occurrences
                               /\ name \notin Range(config.protected_processes)
                               /\ name \notin Range(config.game_processes)
                /\ \A i \in at :
                      /\ call.result[i].evidence_count = count
                      /\ call.result[i].confidence
                             = IF count >= 2 * min_occurrences THEN "high" ELSE "low"

\* a low and a high game_processes suggestion in one list
C24_Witness ==
    /\ call.op = "_build_suggestions"
    /\ \E i, j \in DOMAIN call.result :
          /\ call.result[i].target = "game_processes"
          /\ call.result[i].confidence = "low"
          /\ call.result[j].target = "game_processes"
          /\ call.result[j].confidence = "high"

\* C25: a name is suggested for streaming_processes only if its foreground
\* count under the streaming profile is at least min_occurrences, it is not
\* protected, it is no configured streaming process, and it is neither a
\* configured game process nor suggested for game_processes in the same
\* list
C25_StreamingSuggestionExcludesGames ==
    call.op = "_build_suggestions" =>
        \A name \in SuggestNames :
            SuggestedFor(call.result, "streaming_processes", name) # {}
                => /\ CountOf(counters, "foreground", <<p_streaming, name>>)
                          >= min_occurrences
                   /\ name \notin Range(config.protected_processes)
                   /\ name \notin Range(config.streaming_processes)
                   /\ name \notin Range(config.game_processes)
                   /\ SuggestedFor(call.result, "game_processes", name) = {}


\* C26: a save of the learning snapshot that failed (forced, autosave or
\* final) was logged as a warning, left the file on disk as it found it,
\* and did not end the loop
C26_SaveFailureHarmless ==
    \A t \in Threads :
        saved[t].outcome = "failed" =>
            /\ saved[t].report = "warning"
            /\ saved[t].kept
            /\ ended_by # "error"

\* C27: only one thread ever saves the snapshot; while a forced save of the
\* control thread is in progress the loop thread neither updates a counter
\* nor opens the file; and the file on disk is whole at every moment
C27_SnapshotHasOneWriter ==
    /\ [](disk.whole)
    /\ [](saved["loop"] = NoAttempt \/ saved["control"] = NoAttempt)
    /\ [][saving = "writing" =>
              /\ counters' = counters
              /\ disk' # disk => disk'.opener = "control"]_vars


Named(targets, context) ==
    {t \in Range(targets) : t # ACTIVE_GAME}
    \cup (IF ACTIVE_GAME \in Range(targets) /\ context.active_game # None
          THEN {context.active_game} ELSE {})

\* C29: in a cycle of any mode whose profile step ran to its end, every
\* process of the snapshot that matches a boost target of the cycle's
\* profile gets a priority request of level high under the gaming and the
\* streaming profile and above_normal under any other, every process that
\* matches a throttle target one of level below_normal, and no boost or
\* throttle request, OS call or dry-run record has another level
C29_ProfilePriorities ==
    (cycle_mode # "none" /\ ProfileDone(abort_at)) =>
        LET name == latest_context.profile_name
            profile == config.profiles[name]
            boost == IF name \in {p_gaming, p_streaming} THEN "high" ELSE "above_normal"
        IN  /\ \A i \in DOMAIN processes :
                  LET proc == processes[i]
                      pname == normalize_process_name(proc.name)
                  IN  /\ pname \in Named(profile.boost, latest_context) =>
                            Logged("call_set_priority", proc.pid, boost, <<name, "boost">>)
                      /\ pname \in Named(profile.throttle, latest_context) =>
                            Logged("call_set_priority", proc.pid, "below_normal",
                                   <<name, "throttle">>)
            /\ \A i \in DOMAIN log :
                  /\ log[i].reason = <<name, "boost">> => log[i].level = boost
                  /\ log[i].reason = <<name, "throttle">> => log[i].level = "below_normal"

\* a safe-mode cycle under the default profile, pinned while a game runs,
\* in which the OS raised a process to above_normal
C29_Witness ==
    /\ cycle_mode = "safe"
    /\ ~raised
    /\ latest_context.profile_name = p_default
    /\ profile_override = p_default
    /\ detected.profile_name = p_gaming
    /\ detected.active_game = n_g1
    /\ \E i \in DOMAIN log :
          /\ log[i].ev = "os_set_priority"
          /\ log[i].level = "above_normal"
          /\ log[i].reason = <<p_default, "boost">>


\* C30: the resolved list holds, in the order of the target list, the
\* active game's name for each placeholder and every other target as it is;
\* with no active game the placeholders are left out, and then not even a
\* process whose name is the placeholder's text is among the processes the
\* resolved list selects
C30_PlaceholderResolution ==
    call.op = "_resolve_targets" =>
        LET targets == call.targets
            game == call.context.active_game
            kept(i) == targets[i] # ACTIVE_GAME \/ game # None
            pos(i) == Cardinality({j \in 1..i : kept(j)})
        IN  /\ Len(call.result) = pos(Len(targets))
            /\ \A i \in DOMAIN targets :
                  kept(i) => call.result[pos(i)]
                                 = IF targets[i] = ACTIVE_GAME THEN game ELSE targets[i]
            /\ game = None =>
                  TargetProcs(call.result,
                              <<Proc(MaxPid, [name |-> ACTIVE_GAME, cmdline |-> <<>>],
                                     hog_cpu_percent)>>) = <<>>

\* a list with two placeholders around a name, resolved while a process of
\* a game's name runs that the configuration does not list as a game
C30_Witness ==
    /\ call.op = "_resolve_targets"
    /\ call.targets = <<ACTIVE_GAME, n_key, ACTIVE_GAME>>
    /\ config.game_processes = <<>>
    /\ call.context.active_game = None
    /\ call.result = <<n_key>>

\* the hog counter of a pid in a map of counters (0: none is stored)
StoredCount(map, pid) == IF pid \in DOMAIN map THEN map[pid] ELSE 0

\* the events of the hog rule: its warning, its learning notification, its
\* safe-mode log line, and every request made for the reason "resource hog"
HogEvent(e) ==
    \/ e.ev \in {"hog_warning", "observe_hog", "keep_safe"}
    \/ e.reason = <<"resource hog">>

\* C31: in a cycle that took a snapshot and detected a context, a process
\* whose normalised name is in the resource allowlist, is a configured
\* streaming process, is the active game of the cycle's context or is
\* protected keeps the hog counter it had (none, if it had none) and gets
\* no hog warning, no learning hog notification and no priority or
\* termination request for the reason "resource hog", at any CPU reading.
C31_ExemptNeverHogged ==
    [][pc = "cycle" /\ abort_at' \notin {"snapshot", "foreground"} =>
        \A i \in DOMAIN processes' :
            LET proc == processes'[i]
                name == normalize_process_name(proc.name)
            IN  \/ name \in Range(config.resource_allowlist)
                \/ name \in Range(config.streaming_processes)
                \/ name = latest_context'.active_game
                \/ name \in Range(config.protected_processes)
                => /\ (proc.pid \in DOMAIN hog_windows') = (proc.pid \in DOMAIN hog_windows)
                   /\ StoredCount(hog_windows', proc.pid) = StoredCount(hog_windows, proc.pid)
                   /\ \A j \in DOMAIN log' :
                         log'[j].pid = proc.pid => ~HogEvent(log'[j])]_vars

\* a cycle with a one-cycle window ran through over a process that is the
\* active game and at the CPU threshold: no hog event, no counter
C31_Witness ==
    /\ pc = "wait"
    /\ abort_at = "none"
    /\ config.hog_observation_windows = 1
    /\ \E i \in DOMAIN processes :
          /\ normalize_process_name(processes[i].name) = latest_context.active_game
          /\ processes[i].cpu_percent >= config.hog_cpu_percent
          /\ processes[i].pid \notin DOMAIN hog_windows
          /\ \A j \in DOMAIN log : ~HogEvent(log[j])

\* the hog scan dealt with the process: a reading below the threshold (a
\* failed read is 0.0) leaves it without a counter, a reading at or above
\* it fires the rule when one cycle is the window
HogScanned(proc) ==
    LET name == normalize_process_name(proc.name)
    IN  \/ name = <<>>
        \/ name \in Range(config.resource_allowlist) \cup Range(config.streaming_processes)
        \/ name = latest_context.active_game
        \/ name \in Range(config.protected_processes)
        \/ IF proc.cpu_percent = CpuDenied \/ proc.cpu_percent < config.hog_cpu_percent
           THEN proc.pid \notin DOMAIN hog_windows
           ELSE config.hog_observation_windows = 1 =>
                   \E i \in DOMAIN log : log[i].ev = "hog_warning" /\ log[i].pid = proc.pid

\* the OS failures the enforcement steps catch
Swallowed == {"denied", "timeout", "timeout_denied"}

\* C32: every terminate request to the OS is followed at once by its
\* outcome: terminated, or failed (vanished, denied, zombie), or, when the
\* bounded wait timed out, one kill request and its outcome; a kill is
\* requested only so.  In a cycle whose only fault is a vanished / denied /
\* zombie process or a wait that timed out (in a CPU read, a priority set,
\* a terminate or a kill), no exception reaches the cycle's handler, the
\* failed calls change no cached priority of that pid, and every process
\* of the snapshot is hog-scanned and has each of its findings acted on.
C32_OsRacesSwallowed ==
    /\ \A i \in DOMAIN log :
          /\ log[i].ev = "os_terminate" =>
                /\ i < Len(log)
                /\ IF log[i + 1].ev = "unhandled_error"
                   THEN last_fault.kind = "error"
                   ELSE /\ log[i + 1].pid = log[i].pid
                        /\ log[i + 1].ev \in {"terminated", "terminate_failed", "os_kill"}
                /\ log[i + 1].ev = "os_kill" => last_fault.kind \in {"timeout", "timeout_denied"}
          /\ log[i].ev = "os_kill" =>
                /\ i > 1 /\ log[i - 1].ev = "os_terminate" /\ log[i - 1].pid = log[i].pid
                /\ i < Len(log)
                /\ log[i + 1].pid = log[i].pid
                /\ log[i + 1].ev \in {"killed", "kill_failed"}
    /\ last_fault.kind # "error" /\ pc # "idle" /\ processes # <<>> =>
          /\ abort_at = "none"
          /\ last_fault.kind = "denied" =>
                \A i \in DOMAIN log :
                    log[i].pid = last_fault.pid =>
                        /\ log[i].ev \notin {"os_set_priority", "terminated", "os_kill"}
                        /\ log[i].ev = "call_set_priority" =>
                              log[i].cached = StoredCount(priority_cache, last_fault.pid)
          /\ \A n \in DOMAIN processes : HogScanned(processes[n])
          /\ \A f \in Findings : FindingActedOn(f[1], f[2])

\* the daemon's CPU read failed, the terminate of the first suspect timed
\* out and its kill was denied, and the suspect after it was terminated
C32_Witness ==
    /\ last_fault.kind = "timeout_denied"
    /\ abort_at = "none"
    /\ processes[1].cpu_percent = CpuDenied
    /\ \E i, j \in DOMAIN log :
          /\ i < j
          /\ log[i].ev = "kill_failed" /\ log[i].pid = last_fault.pid
          /\ log[j].ev = "terminated" /\ log[j].pid > last_fault.pid

\* the keys the counters hold
Keys(cs) == {<<e.counter, e.key>> : e \in cs}

\* the processes of a snapshot that have the name
NumNamed(procs, name) ==
    Cardinality({i \in DOMAIN procs : normalize_process_name(procs[i].name) = name})

\* a count that the model stops at MaxCount
Capped(n) == IF n > MaxCount THEN MaxCount ELSE n

\* the keys observe_cycle counts under in a cycle over the snapshot
CycleKeys(procs, context) ==
    UNION {{<<"process", normalize_process_name(procs[i].name)>>,
            <<"profile", <<context.profile_name, normalize_process_name(procs[i].name)>>>>} :
              i \in {j \in DOMAIN procs : normalize_process_name(procs[j].name) # <<>>}}
    \cup (IF context.foreground_process \in {None, <<>>} THEN {}
          ELSE {<<"foreground", <<context.profile_name, context.foreground_process>>>>})

\* what observe_cycle adds to the count of a key
CycleAdds(k, procs, context) ==
    IF k[1] = "process" THEN NumNamed(procs, k[2])
    ELSE IF k[1] = "profile"
         THEN (IF k[2][1] = context.profile_name THEN NumNamed(procs, k[2][2]) ELSE 0)
    ELSE IF k[1] = "foreground"
         THEN (IF context.foreground_process \notin {None, <<>>}
                  /\ k[2] = <<context.profile_name, context.foreground_process>>
               THEN 1 ELSE 0)
    ELSE 0

\* C33: no step of the loop thread or of a saving control thread lowers a
\* counter; a cycle adds to the per-name and the (profile, name) counter one
\* for each listed process of that name, to the (profile, foreground)
\* counter one when the context has a foreground, and nothing to any other
\* key of these three counters; a save outside a cycle (forced or final)
\* leaves every count as it was.
C33_CountersMonotone ==
    [][/\ \A k \in Keys(counters) :
             CountOf(counters', k[1], k[2]) >= CountOf(counters, k[1], k[2])
       /\ pc = "cycle" /\ pc' # "cycle" =>
             \A k \in Keys(counters) \cup Keys(counters')
                       \cup CycleKeys(processes', latest_context') :
                 k[1] \in {"process", "profile", "foreground"} =>
                     CountOf(counters', k[1], k[2])
                         = Capped(CountOf(counters, k[1], k[2])
                                  + CycleAdds(k, processes', latest_context'))
       /\ pc # "cycle" \/ pc' = "cycle" =>
             \A k \in Keys(counters) \cup Keys(counters') :
                 CountOf(counters', k[1], k[2]) = CountOf(counters, k[1], k[2])]_vars

\* one cycle has counted two processes of one name, which the hog rule
\* reported, and a forced save has read the session counts of that name
C33_Witness ==
    /\ CountOf(counters, "process", n_fix) = 1
    /\ CountOf(counters, "process", n_obsx) = 2
    /\ CountOf(counters, "hog", n_obsx) = 2
    /\ Entry("profile", <<p_gaming, n_obsx>>, 0) \in counters
    /\ saved["control"].kind = "forced"

\* C34: after a hog scan that ran to its end every stored hog counter is at
\* least 0 and below hog_observation_windows, and a process of the snapshot
\* that is below the CPU threshold has no positive counter.
C34_HogCounterBounded ==
    HogScanDone(abort_at) =>
        /\ \A p \in DOMAIN hog_windows :
              0 <= hog_windows[p] /\ hog_windows[p] < config.hog_observation_windows
        /\ \A i \in DOMAIN processes :
              _read_cpu_percent(processes[i]) < config.hog_cpu_percent =>
                  StoredCount(hog_windows, processes[i].pid) = 0

\* C35: a stop request made between the start of the worker thread and the
\* point where run() marks itself running is still standing when run() has
\* passed that point, and the run() call returns.
C35_StopNeverLost ==
    /\ [][pc = "start" /\ stop_event /\ pc' # "start" => stop_event']_vars
    /\ (pc = "start" /\ stop_event) ~> (pc = "idle")

\* C36: when a run() call that set the running flag has ended, however it
\* ended, the running flag is false, so that status() (is_running and the
\* stop event not set) reports not running, and run() can be called again
\* and starts a loop.
C36_RunEndClearsFlag ==
    pc = "idle" /\ ended_by # "none" =>
        /\ ~is_running
        /\ ~_status_running(is_running, stop_event)
        /\ ENABLED Run

\* C37: no thread requests the state lock while it holds it; the thread
\* that holds the lock has the release of it as its next lock operation and
\* no call ends with the lock held; and whenever a thread is inside a call
\* that has yet to take or release the lock, some thread can take its next
\* step (no deadlock).
C37_StateLockNeverDeadlocks ==
    /\ \A t \in Threads :
          /\ lock_script[t].todo # <<>> /\ Head(lock_script[t].todo).do = "acquire" =>
                state_lock # t
          /\ state_lock = t =>
                lock_script[t].todo # <<>> /\ Head(lock_script[t].todo).do = "release"
    /\ (\E t \in Threads : lock_script[t].todo # <<>>) => ENABLED (Acquire \/ Release)

\* the control thread is inside the block of status() while the loop thread
\* waits for the lock in _take_suspicion_action of its second finding
C37_Witness ==
    /\ state_lock = "control"
    /\ lock_script["control"].op = "status"
    /\ lock_script["loop"].op = "run"
    /\ Len(lock_script["loop"].todo) = 4
    /\ Head(lock_script["loop"].todo) = [do |-> "acquire", line |-> 203]

\* C38: while the mode override is "safe", that is from the return of
\* set_mode_override("safe") on, no step of the loop thread adds a
\* termination request (proc.terminate() or proc.kill()) to the trace of
\* the cycle, the rest of a cycle that was in progress when the override
\* was set included.
C38_SafeOverrideStopsTermination ==
    [][mode_override = "safe" /\ mode_override' = "safe" =>
          \A i \in (Len(log) + 1)..Len(log') :
             log'[i].ev \notin {"os_terminate", "os_kill"}]_vars

\* C39: in the trace of one cycle, a termination request for a pid
\* (proc.terminate(), or its dry-run line) is followed neither by a second
\* termination request nor by a priority change (proc.nice(priority), or
\* its dry-run line) for the same pid, whatever rules the process matches.
C39_OneTerminationPerPid ==
    \A i, j \in DOMAIN log :
        (/\ i < j
         /\ log[i].pid = log[j].pid
         /\ log[i].ev \in {"os_terminate", "dry_terminate"})
        => log[j].ev \notin {"os_terminate", "dry_terminate", "os_set_priority",
                             "dry_set_priority"}

\* C40: a cycle that finds the snapshot, the detected context, the
\* effective mode and the overrides of the cycle before it, with no call
\* failing in either, performs no priority mutation and writes no dry-run
\* priority line, for any pid and whatever rules apply to it.
C40_EnforcementFixedPoint ==
    [][(/\ pc = "cycle" /\ pc' # "cycle"
        /\ cycle_mode # "none"
        /\ processes' = processes
        /\ detected' = detected
        /\ latest_context' = latest_context
        /\ cycle_mode' = cycle_mode
        /\ abort_at = "none" /\ abort_at' = "none"
        /\ last_fault = NoFault /\ last_fault' = NoFault)
       => \A i \in DOMAIN log' :
             log'[i].ev \notin {"os_set_priority", "dry_set_priority"}]_vars

=============================================================================
